---- MODULE Spec2Model ----
(***************************************************************************)
(* State machines of the session-state subsystem of happy-cli:             *)
(*   - DiffProcessor (src/unnamed/part_001): the per-turn diff             *)
(*     de-duplication state machine and the events it delivers;            *)
(*   - sessionRegistry.ts: the marker files of the daemon and the          *)
(*     write-temp-then-rename primitive, over a small file system with     *)
(*     directory entries, inodes and open file descriptors.                *)
(*   - sessionRegistry.ts: the persisted sessions;                         *)
(*   - resumeCodex.ts: the choice of the transcript file, the exec summary *)
(*     of the codex subprocess and the context built from the transcript.  *)
(***************************************************************************)
EXTENDS Integers, Sequences, FiniteSets, TLC

VARIABLES
    \* ---- DiffProcessor (part_001:31-39) and configuration ----
    previousDiff,          \* string | null
    sentDiff,              \* string | null
    patchAppliedThisTurn,  \* boolean
    onMessage,             \* the registered callback, or null
    disableCodexDiffs,     \* configuration.disableCodexDiffs
    events,                \* every message the callback has been called with
    uuidCount,             \* number of randomUUID() values drawn so far
    \* ---- observation of the last DiffProcessor call ----
    lastOp,                \* name of the last method called
    pre,                   \* the fields as they were when it was called
    markedSinceReset,      \* markPatchApplied() was called since the last reset()
    everMarked,            \* markPatchApplied() has been called
    resetSinceSent,        \* reset() was called since sentDiff was last set
    recorded,              \* the arguments of processDiff: the last, and all
    \* ---- sessionRegistry.ts: the home directory and the calls on it ----
    fs,                    \* <home>/tmp/daemon-sessions: exists, dir, inodes
    clock,                 \* Date.now()
    tasks,                 \* the calls in progress, one record per task
    lastCall,              \* the last call that returned, and what it returned
    lastWrite,             \* per pid: the last write or remove that returned
    reads,                 \* what the last reader of pid-1.json has seen
    renamed,               \* per path: the value last renamed onto it
    calls,                 \* number of calls started by the tasks
    \* ---- sessionRegistry.ts: the persisted sessions ----
    sessions,              \* <home>/sessions: exists, dir, inodes
    lastPersist,           \* per session id: the last write that returned
    origin,                \* per session id: what made the file it has
    lastSessionCall,       \* the last call on the persisted sessions
    \* ---- resumeCodex.ts ----
    request,               \* the argument of resumeCodex, and the terminal
    codexFiles,            \* the files of the machine, in the order of a scan
    resumePc,              \* where resumeCodex is
    chosen,                \* what the choice of the transcript file gave
    result,                \* what resumeCodex returned
    transcript,            \* the chosen file: whether it reads, and its lines
    meta,                  \* what parseCodexSessionMetaFromTranscript gave
    child,                 \* the codex subprocess, once spawned
    stdout,                \* generateCodexExecResumeSummary: let stdout
    stderr,                \* generateCodexExecResumeSummary: let stderr
    summary,               \* the promise of the exec summary, once settled
    messages               \* buildCodexResumeContextFromTranscript: messages

diffVars == <<previousDiff, sentDiff, patchAppliedThisTurn, onMessage,
              disableCodexDiffs, events, uuidCount, lastOp, pre,
              markedSinceReset, everMarked, resetSinceSent, recorded>>

taskVars == <<tasks, reads, renamed, calls>>

regVars == <<fs, clock, lastCall, lastWrite, taskVars>>

storeVars == <<sessions, lastPersist, origin, lastSessionCall>>

execVars == <<transcript, meta, child, stdout, stderr, summary, messages>>

resumeVars == <<request, codexFiles, resumePc, chosen, result, execVars>>

vars == <<diffVars, regVars, storeVars, resumeVars>>

----------------------------------------------------------------------------
(* Values *)

\* null of `string | null`; no diff text equals it.
NULL == "<null>"

\* The unified_diff texts the agent reports; "" is the empty diff.
Diffs == {"", "A", "B"}

\* Number of emitting flushes after which flush() is no longer called.
MaxPairs == 3

\* JavaScript `!x` on a `string | null`: null and the empty string are falsy.
Falsy(x) == x = NULL \/ x = ""

----------------------------------------------------------------------------
(* DiffProcessor *)

\* part_001:75-81
DiffToolCall(callId, unifiedDiff, id) ==
    [type |-> "tool-call", name |-> "CodexDiff", callId |-> callId,
     unified_diff |-> unifiedDiff, id |-> id]

\* DiffToolResult with a callId of its own instead of the call's.
DiffToolResultOwnCallId(callId, id) ==
    [type |-> "tool-call-result", name |-> "", callId |-> id,
     status |-> "completed", id |-> id]

\* part_001:84-89
DiffToolResult(callId, id) ==
    [type |-> "tool-call-result", name |-> "", callId |-> callId,
     status |-> "completed", id |-> id]

\* this.onMessage?.(message): the callback, when there is one, receives it.
Deliver(log, message) ==
    IF onMessage = NULL THEN log ELSE Append(log, message)

\* The fields of the processor, as a record.
Fields ==
    [previousDiff |-> previousDiff, sentDiff |-> sentDiff,
     patchAppliedThisTurn |-> patchAppliedThisTurn, onMessage |-> onMessage,
     n |-> Len(events), uuidCount |-> uuidCount,
     markedSinceReset |-> markedSinceReset, everMarked |-> everMarked,
     resetSinceSent |-> resetSinceSent]

\* new DiffProcessor(onMessage?) under either setting of the configuration flag.
DiffInit ==
    /\ previousDiff = NULL
    /\ sentDiff = NULL
    /\ patchAppliedThisTurn = FALSE
    /\ onMessage \in {NULL, "callback"}
    /\ disableCodexDiffs \in BOOLEAN
    /\ events = <<>>
    /\ uuidCount = 0
    /\ lastOp = "new"
    /\ pre = [previousDiff |-> NULL, sentDiff |-> NULL,
              patchAppliedThisTurn |-> FALSE, onMessage |-> onMessage,
              n |-> 0, uuidCount |-> 0, markedSinceReset |-> FALSE,
              everMarked |-> FALSE, resetSinceSent |-> FALSE]
    /\ markedSinceReset = FALSE
    /\ everMarked = FALSE
    /\ resetSinceSent = FALSE
    /\ recorded = [last |-> NULL, all |-> {}]

\* processDiff(unifiedDiff) that returns before it stores the diff when the
\* emission is disabled.
processDiffDisabledReturns(unifiedDiff) ==
    /\ previousDiff' = IF disableCodexDiffs THEN previousDiff ELSE unifiedDiff
    /\ recorded' = [last |-> unifiedDiff, all |-> recorded.all \cup {unifiedDiff}]
    /\ lastOp' = "processDiff"
    /\ pre' = Fields
    /\ UNCHANGED <<regVars, storeVars, resumeVars>>
    /\ UNCHANGED <<sentDiff, patchAppliedThisTurn, onMessage, disableCodexDiffs,
                   events, uuidCount, markedSinceReset, everMarked,
                   resetSinceSent>>

\* processDiff(unifiedDiff) that, when the emission is disabled, marks the
\* diff as sent as well.
processDiffMarkingSent(unifiedDiff) ==
    /\ previousDiff' = unifiedDiff
    /\ sentDiff' = IF disableCodexDiffs THEN unifiedDiff ELSE sentDiff
    /\ recorded' = [last |-> unifiedDiff, all |-> recorded.all \cup {unifiedDiff}]
    /\ lastOp' = "processDiff"
    /\ pre' = Fields
    /\ UNCHANGED <<regVars, storeVars, resumeVars>>
    /\ UNCHANGED <<patchAppliedThisTurn, onMessage, disableCodexDiffs,
                   events, uuidCount, markedSinceReset, everMarked,
                   resetSinceSent>>

\* processDiff(unifiedDiff), part_001:44-52: both branches store the diff.
processDiff(unifiedDiff) ==
    /\ previousDiff' = unifiedDiff
    /\ recorded' = [last |-> unifiedDiff, all |-> recorded.all \cup {unifiedDiff}]
    /\ lastOp' = "processDiff"
    /\ pre' = Fields
    /\ UNCHANGED <<regVars, storeVars, resumeVars>>
    /\ UNCHANGED <<sentDiff, patchAppliedThisTurn, onMessage, disableCodexDiffs,
                   events, uuidCount, markedSinceReset, everMarked,
                   resetSinceSent>>

\* FlushSkips without the comparison against sentDiff.
FlushSkipsNoDedup ==
    \/ disableCodexDiffs
    \/ patchAppliedThisTurn
    \/ Falsy(previousDiff)

\* FlushSkips without the test of patchAppliedThisTurn.
FlushSkipsIgnoringPatch ==
    \/ disableCodexDiffs
    \/ Falsy(previousDiff)
    \/ sentDiff = previousDiff

\* The early returns of flush(), part_001:58-71.
FlushSkips ==
    \/ disableCodexDiffs
    \/ patchAppliedThisTurn
    \/ Falsy(previousDiff)
    \/ sentDiff = previousDiff

\* flush(), part_001:57-93.  Three randomUUID() values are drawn: callId, the
\* id of the call and the id of the result.
flush ==
    /\ FlushSkips \/ uuidCount < 3 * MaxPairs
    /\ lastOp' = "flush"
    /\ pre' = Fields
    /\ UNCHANGED <<regVars, storeVars, resumeVars>>
    /\ UNCHANGED <<markedSinceReset, everMarked, recorded>>
    /\ IF FlushSkips
       THEN UNCHANGED <<previousDiff, sentDiff, patchAppliedThisTurn, onMessage,
                        disableCodexDiffs, events, uuidCount, resetSinceSent>>
       ELSE LET callId == uuidCount + 1
                toolCall == DiffToolCall(callId, previousDiff, uuidCount + 2)
                toolResult == DiffToolResult(callId, uuidCount + 3)
            IN /\ events' = Deliver(Deliver(events, toolCall), toolResult)
               /\ uuidCount' = uuidCount + 3
               /\ sentDiff' = previousDiff
               /\ resetSinceSent' = FALSE
               /\ UNCHANGED <<previousDiff, patchAppliedThisTurn, onMessage,
                              disableCodexDiffs>>

\* reset() that clears sentDiff as well.
resetClearingSentDiff ==
    /\ previousDiff' = NULL
    /\ sentDiff' = NULL
    /\ patchAppliedThisTurn' = FALSE
    /\ markedSinceReset' = FALSE
    /\ resetSinceSent' = TRUE
    /\ lastOp' = "reset"
    /\ pre' = Fields
    /\ UNCHANGED <<regVars, storeVars, resumeVars>>
    /\ UNCHANGED <<onMessage, disableCodexDiffs, events, uuidCount, everMarked,
                   recorded>>

\* reset() that leaves patchAppliedThisTurn as it is.
resetKeepingPatchFlag ==
    /\ previousDiff' = NULL
    /\ resetSinceSent' = TRUE
    /\ lastOp' = "reset"
    /\ pre' = Fields
    /\ UNCHANGED <<regVars, storeVars, resumeVars>>
    /\ UNCHANGED <<sentDiff, patchAppliedThisTurn, markedSinceReset, onMessage,
                   disableCodexDiffs, events, uuidCount, everMarked, recorded>>

\* reset(), part_001:98-102: sentDiff is left as it is.
reset ==
    /\ previousDiff' = NULL
    /\ patchAppliedThisTurn' = FALSE
    /\ markedSinceReset' = FALSE
    /\ resetSinceSent' = TRUE
    /\ lastOp' = "reset"
    /\ pre' = Fields
    /\ UNCHANGED <<regVars, storeVars, resumeVars>>
    /\ UNCHANGED <<sentDiff, onMessage, disableCodexDiffs, events, uuidCount,
                   everMarked, recorded>>

\* markPatchApplied(), part_001:107-109
markPatchApplied ==
    /\ patchAppliedThisTurn' = TRUE
    /\ markedSinceReset' = TRUE
    /\ everMarked' = TRUE
    /\ lastOp' = "markPatchApplied"
    /\ pre' = Fields
    /\ UNCHANGED <<regVars, storeVars, resumeVars>>
    /\ UNCHANGED <<previousDiff, sentDiff, onMessage, disableCodexDiffs, events,
                   uuidCount, resetSinceSent, recorded>>

\* setMessageCallback(callback), part_001:114-116
setMessageCallback ==
    /\ onMessage' = "callback"
    /\ lastOp' = "setMessageCallback"
    /\ pre' = Fields
    /\ UNCHANGED <<regVars, storeVars, resumeVars>>
    /\ UNCHANGED <<previousDiff, sentDiff, patchAppliedThisTurn,
                   disableCodexDiffs, events, uuidCount, markedSinceReset,
                   everMarked, resetSinceSent, recorded>>

DiffNext ==
    \/ \E d \in Diffs : processDiff(d)
    \/ flush
    \/ reset
    \/ markPatchApplied
    \/ setMessageCallback


----------------------------------------------------------------------------
(* JSON documents *)

\* configuration.happyHomeDir, and the home of another installation.
HomeDir == "/home/a/.happy"
OtherHome == "/home/b/.happy"

\* A metadata value JSON cannot represent: JSON.stringify writes it as null.
NaN == "NaN"

\* Largest number a document of the model holds.
MaxNumber == 9

Numbers == 0..MaxNumber

\* The keys of DaemonSessionMarkerSchema, in the order of its shape
\* (sessionRegistry.ts:8-18).
MarkerKeys ==
    <<"pid", "happySessionId", "happyHomeDir", "createdAt", "updatedAt",
      "flavor", "startedBy", "cwd", "metadata">>

\* The keys of PersistedHappySessionSchema, in the order of its shape
\* (sessionRegistry.ts:22-34).
PersistedKeys ==
    <<"sessionId", "encryptionKeyBase64", "encryptionVariant", "metadata",
      "metadataVersion", "agentState", "agentStateVersion", "flavor",
      "vendorResume", "createdAt", "updatedAt">>

NumberKeys ==
    {"pid", "createdAt", "updatedAt", "metadataVersion", "agentStateVersion"}

Flavors == {"claude", "codex", "gemini"}

Has(r, k) == k \in DOMAIN r

\* A token of JSON text: <<key, type, literal>>; braces are tokens too.
OpenBrace == <<"{", "", "">>
CloseBrace == <<"}", "", "">>

\* The literal JSON.stringify writes for the value of key k.
JsonToken(k, v) ==
    IF k \in NumberKeys THEN <<k, "number", ToString(v)>>
    ELSE IF v = NaN \/ v = NULL THEN <<k, "null", "null">>
    ELSE <<k, "string", v>>

RECURSIVE StringifyKeys(_, _)
StringifyKeys(value, keys) ==
    IF keys = <<>> THEN <<>>
    ELSE LET k == Head(keys)
             rest == StringifyKeys(value, Tail(keys))
         IN IF Has(value, k) THEN <<JsonToken(k, value[k])>> \o rest ELSE rest

\* JSON.stringify(value, null, 2) of an object a schema has put out: own
\* properties in order, between braces.
JsonStringify(value) ==
    <<OpenBrace>> \o StringifyKeys(value, IF Has(value, "sessionId") THEN PersistedKeys
                                ELSE MarkerKeys) \o <<CloseBrace>>

\* The text is one JSON object: a brace, members, a brace, and nothing else.
JsonWellFormed(text) ==
    /\ Len(text) >= 2
    /\ text[1] = OpenBrace
    /\ text[Len(text)] = CloseBrace
    /\ \A i \in 2..(Len(text) - 1) : text[i][2] \in {"number", "string", "null"}

\* The value of a member token.
JsonValue(token) ==
    IF token[2] = "number"
    THEN CHOOSE n \in Numbers : ToString(n) = token[3]
    ELSE IF token[2] = "null" THEN NULL
    ELSE token[3]

\* JSON.parse(text) of well-formed text: the object of its members.
JsonParse(text) ==
    LET members == {text[i] : i \in 2..(Len(text) - 1)}
    IN [k \in {m[1] : m \in members} |->
           JsonValue(CHOOSE m \in members : m[1] = k)]

\* DaemonSessionMarkerSchema accepts the object (sessionRegistry.ts:8-18).
MarkerSchemaOk(value) ==
    /\ Has(value, "pid") /\ value.pid \in Int /\ value.pid > 0
    /\ Has(value, "happySessionId") /\ value.happySessionId # NULL
    /\ Has(value, "happyHomeDir") /\ value.happyHomeDir # NULL
    /\ Has(value, "createdAt") /\ value.createdAt > 0
    /\ Has(value, "updatedAt") /\ value.updatedAt > 0
    /\ Has(value, "flavor") => value.flavor \in Flavors
    /\ Has(value, "startedBy") => value.startedBy # NULL
    /\ Has(value, "cwd") => value.cwd # NULL

\* The data of a successful parse: the keys of the schema, others stripped.
MarkerSchemaData(value) ==
    [k \in DOMAIN value \cap {MarkerKeys[i] : i \in 1..Len(MarkerKeys)} |->
        value[k]]

----------------------------------------------------------------------------
(* The markers directory *)

Pids == {1, 2}

\* join(daemonSessionsDir(), `pid-${pid}.json`), sessionRegistry.ts:68,73
MarkerPath(pid) == <<"pid-", ToString(pid), ".json">>

\* `${filePath}.tmp`, sessionRegistry.ts:53
TmpPath(filePath) == Append(filePath, ".tmp")

\* Names other programs leave in the directory.
ForeignNames == {<<"pid-", "stale", ".json">>}

\* The ids of the persisted sessions.
SessionIds == {"s1", "s2"}

\* A session id whose file only another program makes.
OtherIds == {"s3"}

\* join(sessionsDir(), `${sessionId}.json`), sessionRegistry.ts:128,133
SessionPath(sessionId) == <<sessionId, ".json">>

AllNames ==
    {MarkerPath(p) : p \in Pids} \cup {TmpPath(MarkerPath(p)) : p \in Pids}
        \cup ForeignNames

\* name.startsWith('pid-') && name.endsWith('.json'), sessionRegistry.ts:86
IsMarkerName(name) == name[1] = "pid-" /\ name[Len(name)] = ".json"

\* Number of inodes of the directory's file system.
MaxInodes == 4

Inodes == 1..MaxInodes

BlankInode == [kind |-> "free", text |-> <<>>]

\* The home before anything was written to it.
EmptyFs ==
    [exists |-> FALSE,
     dir |-> [n \in AllNames |-> 0],
     inodes |-> [i \in Inodes |-> BlankInode]]

\* Inodes no name and no open descriptor of fds refers to.
FreeInodes(f, fds) ==
    {i \in Inodes : i \notin fds /\ \A n \in DOMAIN f.dir : f.dir[n] # i}

\* Unreferenced inodes hold nothing.
Reclaim(f, fds) ==
    [f EXCEPT !.inodes = [i \in Inodes |->
        IF i \in FreeInodes(f, fds) THEN BlankInode ELSE f.inodes[i]]]

\* ensureDir(dir), sessionRegistry.ts:46-50
ensureDir(f) == [f EXCEPT !.exists = TRUE]

\* open(path, 'w'): creates the file or truncates the one that is there.
\* The descriptor is the inode.
OpenFd(f, fds, path) ==
    IF f.dir[path] # 0 THEN f.dir[path]
    ELSE CHOOSE i \in FreeInodes(f, fds) : \A j \in FreeInodes(f, fds) : i <= j

OpenTruncate(f, fds, path) ==
    LET fd == OpenFd(f, fds, path)
    IN [f EXCEPT !.dir[path] = fd,
                 !.inodes[fd] = [kind |-> "file", text |-> <<>>]]

\* write(fd, data) at offset 0: data replaces the first Len(data) tokens.
WriteFd(f, fd, data) ==
    LET old == f.inodes[fd].text
    IN [f EXCEPT !.inodes[fd].text =
            data \o SubSeq(old, Len(data) + 1, Len(old))]

\* rename(from, to), when from exists: one atomic change of the directory.
Rename(f, from, to) ==
    [f EXCEPT !.dir = [f.dir EXCEPT ![to] = f.dir[from], ![from] = 0]]

\* unlink(path), when path exists.
Unlink(f, path) == [f EXCEPT !.dir[path] = 0]

\* readFile(path, 'utf-8') succeeds.
Readable(f, path) ==
    /\ f.exists
    /\ f.dir[path] # 0
    /\ f.inodes[f.dir[path]].kind = "file"

ReadFile(f, path) == f.inodes[f.dir[path]].text

\* readdir(dir): the names present.
Readdir(f) == {n \in DOMAIN f.dir : f.dir[n] # 0}

----------------------------------------------------------------------------
(* sessionRegistry.ts, each call run to its end *)

\* The markers callers write: the required fields alone, then each optional
\* field, a metadata JSON cannot represent, and three the schema rejects.
MarkerInputs ==
    UNION {
        {[pid |-> p, happySessionId |-> "s1"],
         [pid |-> p, happySessionId |-> "s2", flavor |-> "codex",
          metadata |-> "m"],
         [pid |-> p, happySessionId |-> "s1", createdAt |-> 7],
         [pid |-> p, happySessionId |-> "s1", updatedAt |-> 8, cwd |-> "/w"],
         [pid |-> p, happySessionId |-> "s2", metadata |-> NaN],
         [pid |-> p, happySessionId |-> "s1", createdAt |-> 0],
         [pid |-> p]} : p \in Pids}
    \cup {[pid |-> 0, happySessionId |-> "s1"]}

\* Latest time of the clock.
MaxClock == 2

\* MarkerCandidate that stamps the time of the write over supplied timestamps.
MarkerCandidateAlwaysNow(marker, now) ==
    [happyHomeDir |-> HomeDir, createdAt |-> now, updatedAt |-> now] @@ marker

\* The object handed to DaemonSessionMarkerSchema.parse, sessionRegistry.ts:61-66
MarkerCandidate(marker, now) ==
    [happyHomeDir |-> HomeDir,
     createdAt |-> IF Has(marker, "createdAt") THEN marker.createdAt ELSE now,
     updatedAt |-> IF Has(marker, "updatedAt") THEN marker.updatedAt ELSE now]
    @@ marker

\* writeJsonAtomic(filePath, value), sessionRegistry.ts:52-56, with no other
\* task running: writeFile(tmpPath) is open, write, close; then rename.
writeJsonAtomic(f, filePath, value) ==
    LET tmpPath == TmpPath(filePath)
        fd == OpenFd(f, {}, tmpPath)
        opened == OpenTruncate(f, {}, tmpPath)
        written == WriteFd(opened, fd, JsonStringify(value))
    IN Reclaim(Rename(written, tmpPath, filePath), {})

\* ListEntry without the comparison of happyHomeDir.
ListEntryAnyHome(f, name) ==
    IF ~IsMarkerName(name) THEN <<>>
    ELSE IF ~Readable(f, name) THEN <<>>
    ELSE IF ~JsonWellFormed(ReadFile(f, name)) THEN <<>>
    ELSE LET parsed == JsonParse(ReadFile(f, name))
         IN IF ~MarkerSchemaOk(parsed) THEN <<>>
            ELSE <<MarkerSchemaData(parsed)>>

\* What one directory entry adds to the list, sessionRegistry.ts:86-97.
ListEntry(f, name) ==
    IF ~IsMarkerName(name) THEN <<>>
    ELSE IF ~Readable(f, name) THEN <<>>
    ELSE IF ~JsonWellFormed(ReadFile(f, name)) THEN <<>>
    ELSE LET parsed == JsonParse(ReadFile(f, name))
         IN IF ~MarkerSchemaOk(parsed) THEN <<>>
            ELSE IF MarkerSchemaData(parsed).happyHomeDir # HomeDir THEN <<>>
            ELSE <<MarkerSchemaData(parsed)>>

RECURSIVE ListEntries(_, _)
ListEntries(f, entries) ==
    IF entries = <<>> THEN <<>>
    ELSE ListEntry(f, Head(entries)) \o ListEntries(f, Tail(entries))

\* The orders readdir may return the names in.
Orders(names) ==
    {o \in [1..Cardinality(names) -> names] :
        \A i, j \in 1..Cardinality(names) : i # j => o[i] # o[j]}

NoCall ==
    [op |-> "none", pid |-> 0, arg |-> <<>>, outcome |-> "returned",
     result |-> <<>>, before |-> EmptyFs]

\* The async calls that may be in progress at once.
Tasks == {1, 2}

IdleTask ==
    [pc |-> "idle", op |-> "none", arg |-> <<>>, path |-> <<>>, data |-> <<>>,
     fd |-> 0, entries |-> <<>>, markers |-> <<>>, outcome |-> "none",
     snapshot |-> {}, touched |-> {}, vanished |-> {}]

RegInit ==
    /\ fs = EmptyFs
    /\ clock = 1
    /\ tasks = [t \in Tasks |-> IdleTask]
    /\ lastCall = NoCall
    /\ lastWrite = [p \in Pids |-> <<>>]
    /\ reads = <<>>
    /\ renamed = [n \in AllNames |-> <<>>]
    /\ calls = 0

\* Time passes.
Tick ==
    /\ clock < MaxClock
    /\ clock' = clock + 1
    /\ UNCHANGED <<fs, lastCall, lastWrite, taskVars>>
    /\ UNCHANGED <<diffVars, storeVars, resumeVars>>

\* writeSessionMarker that opens the temporary file before it validates.
writeSessionMarkerTmpFirst(marker) ==
    LET candidate == MarkerCandidate(marker, clock)
        ok == MarkerSchemaOk(candidate)
        payload == MarkerSchemaData(candidate)
    IN /\ fs' = IF ok
                THEN writeJsonAtomic(ensureDir(fs), MarkerPath(payload.pid), payload)
                ELSE IF marker.pid \in Pids
                THEN OpenTruncate(ensureDir(fs), {}, TmpPath(MarkerPath(marker.pid)))
                ELSE ensureDir(fs)
       /\ lastCall' = [op |-> "writeSessionMarker", pid |-> marker.pid,
                       arg |-> <<marker>>,
                       outcome |-> IF ok THEN "returned" ELSE "raised ZodError",
                       result |-> <<>>, before |-> fs]
       /\ lastWrite' = IF ok
                       THEN [lastWrite EXCEPT ![payload.pid] =
                                <<[marker |-> marker, now |-> clock]>>]
                       ELSE lastWrite
       /\ UNCHANGED <<clock, taskVars>>
       /\ UNCHANGED <<diffVars, storeVars, resumeVars>>

\* writeSessionMarker(marker), sessionRegistry.ts:58-70
writeSessionMarker(marker) ==
    LET candidate == MarkerCandidate(marker, clock)
        ok == MarkerSchemaOk(candidate)
        payload == MarkerSchemaData(candidate)
    IN /\ fs' = IF ok
                THEN writeJsonAtomic(ensureDir(fs), MarkerPath(payload.pid), payload)
                ELSE ensureDir(fs)
       /\ lastCall' = [op |-> "writeSessionMarker", pid |-> marker.pid,
                       arg |-> <<marker>>,
                       outcome |-> IF ok THEN "returned" ELSE "raised ZodError",
                       result |-> <<>>, before |-> fs]
       /\ lastWrite' = IF ok
                       THEN [lastWrite EXCEPT ![payload.pid] =
                                <<[marker |-> marker, now |-> clock]>>]
                       ELSE lastWrite
       /\ UNCHANGED <<clock, taskVars>>
       /\ UNCHANGED <<diffVars, storeVars, resumeVars>>

\* unlink(filePath) throws: there is no such file.
UnlinkThrows(f, filePath) == ~f.exists \/ f.dir[filePath] = 0

\* removeSessionMarker that lets the error of unlink through.
removeSessionMarkerThrowing(pid) ==
    LET filePath == MarkerPath(pid)
    IN /\ fs' = IF UnlinkThrows(fs, filePath) THEN fs
                ELSE Reclaim(Unlink(fs, filePath), {})
       /\ lastCall' = [op |-> "removeSessionMarker", pid |-> pid,
                       arg |-> <<>>,
                       outcome |-> IF UnlinkThrows(fs, filePath)
                                   THEN "raised ENOENT" ELSE "returned",
                       result |-> <<>>, before |-> fs]
       /\ lastWrite' = [lastWrite EXCEPT ![pid] = <<>>]
       /\ UNCHANGED <<clock, taskVars>>
       /\ UNCHANGED <<diffVars, storeVars, resumeVars>>

\* removeSessionMarker(pid), sessionRegistry.ts:72-79: the error is ignored.
removeSessionMarker(pid) ==
    LET filePath == MarkerPath(pid)
    IN /\ fs' = IF UnlinkThrows(fs, filePath) THEN fs
                ELSE Reclaim(Unlink(fs, filePath), {})
       /\ lastCall' = [op |-> "removeSessionMarker", pid |-> pid,
                       arg |-> <<>>,
                       outcome |-> "returned", result |-> <<>>, before |-> fs]
       /\ lastWrite' = [lastWrite EXCEPT ![pid] = <<>>]
       /\ UNCHANGED <<clock, taskVars>>
       /\ UNCHANGED <<diffVars, storeVars, resumeVars>>

\* listSessionMarkers(), sessionRegistry.ts:81-100
listSessionMarkers ==
    /\ fs' = ensureDir(fs)
    /\ \E entries \in Orders(Readdir(fs)) :
          lastCall' = [op |-> "listSessionMarkers", pid |-> 0,
                       arg |-> <<>>,
                       outcome |-> "returned",
                       result |-> ListEntries(ensureDir(fs), entries),
                       before |-> fs]
    /\ UNCHANGED <<clock, lastWrite, taskVars>>
    /\ UNCHANGED <<diffVars, storeVars, resumeVars>>

MarkersNext ==
    \/ Tick
    \/ \E marker \in MarkerInputs : writeSessionMarker(marker)
    \/ \E pid \in Pids : removeSessionMarker(pid)
    \/ listSessionMarkers

----------------------------------------------------------------------------
(* sessionRegistry.ts, calls of concurrent tasks interleaved at their awaits *)

\* Number of calls the tasks start.
MaxCalls == 2

\* The markers the tasks write, all of one pid: a short and a long document.
TaskMarkerInputs ==
    {[pid |-> 1, happySessionId |-> "s1"],
     [pid |-> 1, happySessionId |-> "s2", flavor |-> "codex", metadata |-> "m"]}

\* The home after an earlier writeSessionMarker of pid 1 at time 1.
HomeWithMarker ==
    writeJsonAtomic(ensureDir(EmptyFs), MarkerPath(1),
        MarkerSchemaData(MarkerCandidate([pid |-> 1, happySessionId |-> "s1"], 1)))

\* The tasks start on a new home or on one that holds a marker.
TasksInit ==
    /\ fs \in {EmptyFs, HomeWithMarker}
    /\ clock = 1
    /\ tasks = [t \in Tasks |-> IdleTask]
    /\ lastCall = NoCall
    /\ lastWrite = [p \in Pids |-> <<>>]
    /\ reads = <<>>
    /\ renamed = [n \in AllNames |-> <<>>]
    /\ calls = 0

\* What another program may leave under a marker name: a marker of another
\* home, a marker of this home, JSON the schema rejects, and cut-off JSON.
OtherHomeMarker ==
    [pid |-> 2, happySessionId |-> "s9", happyHomeDir |-> OtherHome,
     createdAt |-> 1, updatedAt |-> 1]

StaleHomeMarker ==
    [pid |-> 2, happySessionId |-> "s8", happyHomeDir |-> HomeDir,
     createdAt |-> 1, updatedAt |-> 1]

ForeignTexts ==
    {JsonStringify(OtherHomeMarker),
     JsonStringify(StaleHomeMarker),
     JsonStringify([pid |-> 2, happyHomeDir |-> HomeDir, createdAt |-> 1,
                    updatedAt |-> 1]),
     <<OpenBrace, <<"pid", "number", "2">>>>}

\* A call that starts takes the first task that is free.
FirstFree(t) == tasks[t].pc = "idle" /\ \A u \in Tasks : u < t => tasks[u].pc # "idle"

\* The inodes the tasks hold open.
OpenFds(ts) == {ts[t].fd : t \in Tasks} \ {0}

\* The names in names changed after the readdir of the tasks that list.
Touch(ts, names) ==
    [t \in Tasks |->
        IF ts[t].pc \in {"read", "done"} /\ ts[t].op = "listSessionMarkers"
        THEN [ts[t] EXCEPT !.touched = @ \cup names]
        ELSE ts[t]]

\* The names that lead to inode i.
NamesOf(f, i) == {n \in AllNames : f.dir[n] = i}

\* What a reader of path gets: the text, or nothing when readFile throws.
NoFile == <<<<"ENOENT", "", "">>>>

Observed(f, path) == IF Readable(f, path) THEN ReadFile(f, path) ELSE NoFile

\* writeSessionMarker(marker) is called: ensureDir, sessionRegistry.ts:59.
CallWrite(t, marker) ==
    /\ FirstFree(t)
    /\ calls < MaxCalls
    /\ calls' = calls + 1
    /\ fs' = ensureDir(fs)
    /\ tasks' = [tasks EXCEPT ![t] =
            [IdleTask EXCEPT !.pc = "parse", !.op = "writeSessionMarker",
                             !.arg = marker]]
    /\ UNCHANGED <<clock, lastCall, lastWrite, reads, renamed>>
    /\ UNCHANGED <<diffVars, storeVars, resumeVars>>

\* sessionRegistry.ts:60-68 and the open of writeFile(tmpPath), :54.
WriteOpen(t) ==
    LET candidate == MarkerCandidate(tasks[t].arg, clock)
        payload == MarkerSchemaData(candidate)
        filePath == MarkerPath(payload.pid)
        tmpPath == TmpPath(filePath)
        fds == OpenFds(tasks)
    IN /\ tasks[t].pc = "parse"
       /\ IF ~MarkerSchemaOk(candidate)
          THEN /\ tasks' = [tasks EXCEPT ![t].pc = "done",
                                         ![t].outcome = "raised ZodError"]
               /\ fs' = fs
          ELSE /\ fs.dir[tmpPath] = 0 => FreeInodes(fs, fds) # {}
               /\ fs' = OpenTruncate(fs, fds, tmpPath)
               /\ tasks' = [Touch(tasks, {tmpPath}) EXCEPT
                               ![t].pc = "write", ![t].path = filePath,
                               ![t].data = JsonStringify(payload),
                               ![t].fd = OpenFd(fs, fds, tmpPath)]
       /\ UNCHANGED <<clock, lastCall, lastWrite, reads, renamed, calls>>
       /\ UNCHANGED <<diffVars, storeVars, resumeVars>>

\* The write and the close of writeFile(tmpPath), sessionRegistry.ts:54: the
\* data goes to the file that was opened, whatever its name is by now.
WriteData(t) ==
    LET fd == tasks[t].fd
        closed == [tasks EXCEPT ![t].fd = 0, ![t].pc = "rename"]
    IN /\ tasks[t].pc = "write"
       /\ fs' = Reclaim(WriteFd(fs, fd, tasks[t].data), OpenFds(closed))
       /\ tasks' = Touch(closed, NamesOf(fs, fd))
       /\ UNCHANGED <<clock, lastCall, lastWrite, reads, renamed, calls>>
       /\ UNCHANGED <<diffVars, storeVars, resumeVars>>

\* rename(tmpPath, filePath), sessionRegistry.ts:55; it throws when tmpPath is
\* no longer there.
WriteRename(t) ==
    LET filePath == tasks[t].path
        tmpPath == TmpPath(filePath)
    IN /\ tasks[t].pc = "rename"
       /\ IF fs.dir[tmpPath] = 0
          THEN /\ tasks' = [tasks EXCEPT ![t].pc = "done",
                                         ![t].outcome = "raised ENOENT"]
               /\ UNCHANGED <<fs, renamed>>
          ELSE /\ fs' = Reclaim(Rename(fs, tmpPath, filePath), OpenFds(tasks))
               /\ renamed' = [renamed EXCEPT ![filePath] = <<tasks[t].data>>]
               /\ tasks' = [Touch(tasks, {tmpPath, filePath}) EXCEPT
                               ![t].pc = "done", ![t].outcome = "returned"]
       /\ UNCHANGED <<clock, lastCall, lastWrite, reads, calls>>
       /\ UNCHANGED <<diffVars, storeVars, resumeVars>>

\* removeSessionMarker(pid), sessionRegistry.ts:72-79: one unlink.
CallRemove(t, pid) ==
    LET filePath == MarkerPath(pid)
    IN /\ FirstFree(t)
       /\ calls < MaxCalls
       /\ calls' = calls + 1
       /\ fs' = IF UnlinkThrows(fs, filePath) THEN fs
                ELSE Reclaim(Unlink(fs, filePath), OpenFds(tasks))
       /\ renamed' = [renamed EXCEPT ![filePath] = <<>>]
       /\ tasks' = [Touch(tasks, {filePath}) EXCEPT ![t] =
               [IdleTask EXCEPT !.pc = "done", !.op = "removeSessionMarker",
                                !.path = filePath, !.outcome = "returned"]]
       /\ UNCHANGED <<clock, lastCall, lastWrite, reads>>
       /\ UNCHANGED <<diffVars, storeVars, resumeVars>>

\* listSessionMarkers() is called: ensureDir, sessionRegistry.ts:82.
CallList(t) ==
    /\ FirstFree(t)
    /\ calls < MaxCalls
    /\ calls' = calls + 1
    /\ fs' = ensureDir(fs)
    /\ tasks' = [tasks EXCEPT ![t] =
            [IdleTask EXCEPT !.pc = "readdir", !.op = "listSessionMarkers"]]
    /\ UNCHANGED <<clock, lastCall, lastWrite, reads, renamed>>
    /\ UNCHANGED <<diffVars, storeVars, resumeVars>>

\* readdir, sessionRegistry.ts:83, in any order.  The names the test at :86
\* drops take no turn of the loop that awaits, and are dropped here.
ListReaddir(t) ==
    /\ tasks[t].pc = "readdir"
    /\ \E entries \in Orders(Readdir(fs)) :
          tasks' = [tasks EXCEPT ![t].pc = "read",
                                 ![t].entries = SelectSeq(entries, IsMarkerName),
                                 ![t].snapshot = Readdir(fs)]
    /\ UNCHANGED <<fs, clock, lastCall, lastWrite, reads, renamed, calls>>
    /\ UNCHANGED <<diffVars, storeVars, resumeVars>>

\* readFile or JSON.parse throws on the entry, sessionRegistry.ts:89-90.
EntryThrows(f, name) ==
    ~Readable(f, name) \/ ~JsonWellFormed(ReadFile(f, name))

\* ListRead with the throw of an entry leaving the loop and the function.
ListReadUncaught(t) ==
    LET entries == tasks[t].entries
    IN /\ tasks[t].pc = "read"
       /\ IF entries = <<>>
          THEN tasks' = [tasks EXCEPT ![t].pc = "done", ![t].entries = <<>>,
                                      ![t].outcome = "returned"]
          ELSE LET name == Head(entries)
               IN tasks' =
                        IF EntryThrows(fs, name)
                        THEN [tasks EXCEPT ![t].pc = "done",
                                           ![t].outcome = "raised"]
                        ELSE [tasks EXCEPT
                                 ![t].entries = Tail(entries),
                                 ![t].markers = @ \o ListEntry(fs, name)]
       /\ UNCHANGED <<fs, clock, lastCall, lastWrite, reads, renamed, calls>>
       /\ UNCHANGED <<diffVars, storeVars, resumeVars>>

\* One turn of the loop that reads a file, sessionRegistry.ts:85-98, or the
\* return at :99 when no entry is left.
ListRead(t) ==
    LET entries == tasks[t].entries
    IN /\ tasks[t].pc = "read"
       /\ IF entries = <<>>
          THEN tasks' = [tasks EXCEPT ![t].pc = "done", ![t].entries = <<>>,
                                      ![t].outcome = "returned"]
          ELSE LET name == Head(entries)
               IN tasks' = [tasks EXCEPT
                        ![t].entries = Tail(entries),
                        ![t].markers = @ \o ListEntry(fs, name),
                        ![t].vanished = IF fs.dir[name] = 0
                                        THEN @ \cup {name} ELSE @]
       /\ UNCHANGED <<fs, clock, lastCall, lastWrite, reads, renamed, calls>>
       /\ UNCHANGED <<diffVars, storeVars, resumeVars>>

\* The call of task t has ended and the task is free for another.
Return(t) ==
    /\ tasks[t].pc = "done"
    /\ tasks' = [tasks EXCEPT ![t] = IdleTask]
    /\ UNCHANGED <<fs, clock, lastCall, lastWrite, reads, renamed, calls>>
    /\ UNCHANGED <<diffVars, storeVars, resumeVars>>

\* Another program makes a directory under a marker name: readFile of it
\* throws.
ForeignMkdir ==
    LET name == <<"pid-", "stale", ".json">>
        fds == OpenFds(tasks)
        i == OpenFd(fs, fds, name)
    IN /\ fs.exists
       /\ fs.dir[name] = 0
       /\ FreeInodes(fs, fds) # {}
       /\ fs' = [fs EXCEPT !.dir[name] = i,
                           !.inodes[i] = [kind |-> "dir", text |-> <<>>]]
       /\ tasks' = Touch(tasks, {name})
       /\ UNCHANGED <<clock, lastCall, lastWrite, reads, renamed, calls>>
       /\ UNCHANGED <<diffVars, storeVars, resumeVars>>

\* Another program puts a file under a marker name it owns.
ForeignPut(text) ==
    LET name == <<"pid-", "stale", ".json">>
        fds == OpenFds(tasks)
    IN /\ fs.exists
       /\ fs.dir[name] # 0 => fs.inodes[fs.dir[name]].kind = "file"
       /\ fs.dir[name] = 0 => FreeInodes(fs, fds) # {}
       /\ fs' = WriteFd(OpenTruncate(fs, fds, name), OpenFd(fs, fds, name), text)
       /\ tasks' = Touch(tasks, {name})
       /\ UNCHANGED <<clock, lastCall, lastWrite, reads, renamed, calls>>
       /\ UNCHANGED <<diffVars, storeVars, resumeVars>>

\* Another reader reads the marker file of pid 1.
Observe ==
    /\ reads' = <<Observed(fs, MarkerPath(1))>>
    /\ UNCHANGED <<fs, clock, tasks, lastCall, lastWrite, renamed, calls>>
    /\ UNCHANGED <<diffVars, storeVars, resumeVars>>

\* Calls of all three functions, and another program's files.
TasksNext ==
    \/ \E t \in Tasks :
          \/ \E marker \in TaskMarkerInputs : CallWrite(t, marker)
          \/ WriteOpen(t)
          \/ WriteData(t)
          \/ WriteRename(t)
          \/ CallRemove(t, 1)
          \/ CallList(t)
          \/ ListReaddir(t)
          \/ ListRead(t)
          \/ Return(t)
    \/ \E text \in ForeignTexts : ForeignPut(text)
    \/ ForeignMkdir

\* Writers of one marker file, and a reader of it.
RaceNext ==
    \/ \E t \in Tasks :
          \/ \E marker \in TaskMarkerInputs : CallWrite(t, marker)
          \/ WriteOpen(t)
          \/ WriteData(t)
          \/ WriteRename(t)
          \/ Return(t)
    \/ Observe

----------------------------------------------------------------------------
(* sessionRegistry.ts, the persisted sessions *)

\* The base64 alphabet of Buffer.toString('base64').
Base64Char(n) ==
    LET alphabet ==
    <<"A", "B", "C", "D", "E", "F", "G", "H", "I", "J", "K", "L", "M",
          "N", "O", "P", "Q", "R", "S", "T", "U", "V", "W", "X", "Y", "Z",
          "a", "b", "c", "d", "e", "f", "g", "h", "i", "j", "k", "l", "m",
          "n", "o", "p", "q", "r", "s", "t", "u", "v", "w", "x", "y", "z",
          "0", "1", "2", "3", "4", "5", "6", "7", "8", "9", "+", "/">>
    IN alphabet[(n % 64) + 1]

\* Buffer.from(bytes).toString('base64'): three bytes make four characters,
\* and a last group of one or two bytes is padded with "=".
RECURSIVE Base64(_)
Base64(bytes) ==
    IF Len(bytes) = 0 THEN ""
    ELSE IF Len(bytes) = 1
    THEN LET n == bytes[1] * 65536
         IN Base64Char(n \div 262144) \o Base64Char(n \div 4096) \o "=="
    ELSE IF Len(bytes) = 2
    THEN LET n == bytes[1] * 65536 + bytes[2] * 256
         IN Base64Char(n \div 262144) \o Base64Char(n \div 4096)
                \o Base64Char(n \div 64) \o "="
    ELSE LET n == bytes[1] * 65536 + bytes[2] * 256 + bytes[3]
         IN Base64Char(n \div 262144) \o Base64Char(n \div 4096)
                \o Base64Char(n \div 64) \o Base64Char(n)
                \o Base64(SubSeq(bytes, 4, Len(bytes)))

\* PersistedHappySessionSchema accepts the object (sessionRegistry.ts:22-34);
\* metadata and agentState are z.any().
PersistedSchemaOk(value) ==
    /\ Has(value, "sessionId") /\ value.sessionId # NULL
    /\ Has(value, "encryptionKeyBase64") /\ value.encryptionKeyBase64 # NULL
    /\ Has(value, "encryptionVariant")
    /\ value.encryptionVariant \in {"legacy", "dataKey"}
    /\ Has(value, "metadataVersion") /\ value.metadataVersion >= 0
    /\ Has(value, "agentStateVersion") /\ value.agentStateVersion >= 0
    /\ Has(value, "flavor") /\ value.flavor \in Flavors
    /\ Has(value, "vendorResume") => value.vendorResume # NULL
    /\ Has(value, "createdAt") /\ value.createdAt > 0
    /\ Has(value, "updatedAt") /\ value.updatedAt > 0

\* The data of a successful parse: the keys of the schema, others stripped.
PersistedSchemaData(value) ==
    [k \in DOMAIN value \cap {PersistedKeys[i] : i \in 1..Len(PersistedKeys)} |->
        value[k]]

\* The object handed to PersistedHappySessionSchema.parse,
\* sessionRegistry.ts:114-126.  A property the caller left undefined is absent;
\* agentState ?? null and vendorResume ?? undefined.
PersistedCandidate(session, extra, now) ==
    LET given == [k \in {"metadata", "metadataVersion", "agentStateVersion",
                         "encryptionVariant"} \cap DOMAIN session |-> session[k]]
        id == IF Has(session, "id") THEN [sessionId |-> session.id]
              ELSE [k \in {} |-> NULL]
        resume == IF Has(extra, "vendorResume") /\ extra.vendorResume # NULL
                  THEN [vendorResume |-> extra.vendorResume]
                  ELSE [k \in {} |-> NULL]
    IN [encryptionKeyBase64 |-> Base64(session.encryptionKey),
        agentState |-> IF Has(session, "agentState") THEN session.agentState
                       ELSE NULL,
        flavor |-> extra.flavor,
        createdAt |-> now,
        updatedAt |-> now] @@ given @@ id @@ resume

\* The sessions callers persist: with and without a vendorResume and an
\* agentState, a metadata JSON cannot represent, keys of each length modulo
\* three, and two the schema rejects.
SessionInputs ==
    {<<[id |-> "s1", metadata |-> "m", metadataVersion |-> 0,
        agentState |-> NULL, agentStateVersion |-> 0,
        encryptionKey |-> <<255>>, encryptionVariant |-> "legacy"],
       [flavor |-> "claude", vendorResume |-> "v1"]>>,
     <<[id |-> "s1", metadata |-> NaN, metadataVersion |-> 1,
        agentStateVersion |-> 2,
        encryptionKey |-> <<77, 97, 110>>, encryptionVariant |-> "dataKey"],
       [flavor |-> "codex", vendorResume |-> NULL]>>,
     <<[id |-> "s2", metadata |-> "m", metadataVersion |-> 0,
        agentState |-> "a", agentStateVersion |-> 0,
        encryptionKey |-> <<77, 97>>, encryptionVariant |-> "legacy"],
       [flavor |-> "gemini"]>>,
     <<[id |-> "s1", metadata |-> "m", metadataVersion |-> -1,
        agentState |-> NULL, agentStateVersion |-> 0,
        encryptionKey |-> <<>>, encryptionVariant |-> "legacy"],
       [flavor |-> "claude"]>>,
     <<[id |-> "s2", metadata |-> "m", metadataVersion |-> 0,
        agentState |-> NULL, agentStateVersion |-> 0,
        encryptionKey |-> <<>>, encryptionVariant |-> "legacy"],
       [flavor |-> "other"]>>}

\* The home before any session was persisted.
StoreInit ==
    /\ sessions =
         [exists |-> FALSE,
          dir |-> [n \in {SessionPath(i) : i \in SessionIds \cup OtherIds}
                            \cup {TmpPath(SessionPath(i)) : i \in SessionIds}
                   |-> 0],
          inodes |-> [i \in Inodes |-> BlankInode]]
    /\ lastPersist = [i \in SessionIds |-> <<>>]
    /\ origin = [i \in SessionIds \cup OtherIds |-> "absent"]
    /\ lastSessionCall =
         [op |-> "none", sessionId |-> "", outcome |-> "returned",
          result |-> <<>>, storeChanged |-> FALSE, found |-> "absent"]

\* The record in the file a write replaces, if it holds one.
Replaced(f, filePath) ==
    IF ~Readable(f, filePath) \/ ~JsonWellFormed(ReadFile(f, filePath)) THEN <<>>
    ELSE LET old == JsonParse(ReadFile(f, filePath))
         IN IF ~PersistedSchemaOk(old) THEN <<>> ELSE <<old>>

\* The write at time now replaces a record that has a vendorResume and was
\* created earlier.
ReplacesOlderResume(f, filePath, now) ==
    /\ Replaced(f, filePath) # <<>>
    /\ Has(Replaced(f, filePath)[1], "vendorResume")
    /\ Replaced(f, filePath)[1].createdAt < now

\* The candidate of a write that keeps the createdAt and the vendorResume of
\* the record the file holds.
PersistedCandidateMerging(session, extra, now) ==
    LET fresh == PersistedCandidate(session, extra, now)
        filePath == SessionPath(session.id)
    IN IF ~Has(session, "id") \/ Replaced(sessions, filePath) = <<>> THEN fresh
       ELSE LET old == Replaced(sessions, filePath)[1]
            IN [createdAt |-> old.createdAt] @@ fresh
                   @@ [k \in {"vendorResume"} \cap DOMAIN old |-> old[k]]

\* writePersistedHappySession that merges into the record it finds.
writePersistedHappySessionMerging(session, extra) ==
    LET candidate == PersistedCandidateMerging(session, extra, clock)
        ok == PersistedSchemaOk(candidate)
        persisted == PersistedSchemaData(candidate)
        filePath == SessionPath(persisted.sessionId)
    IN /\ sessions' = IF ok
                      THEN writeJsonAtomic(ensureDir(sessions), filePath, persisted)
                      ELSE ensureDir(sessions)
       /\ lastSessionCall' =
              [op |-> "writePersistedHappySession",
               sessionId |-> IF Has(session, "id") THEN session.id ELSE "",
               outcome |-> IF ok THEN "returned" ELSE "raised ZodError",
               result |-> <<>>,
               storeChanged |-> sessions' # ensureDir(sessions),
               found |-> "absent"]
       /\ lastPersist' =
              IF ok
              THEN [lastPersist EXCEPT ![persisted.sessionId] =
                       <<[session |-> session, extra |-> extra, now |-> clock,
                          over |-> ReplacesOlderResume(sessions, filePath,
                                                       clock)]>>]
              ELSE lastPersist
       /\ origin' = IF ok
                    THEN [origin EXCEPT ![persisted.sessionId] = "written"]
                    ELSE origin
       /\ UNCHANGED <<diffVars, regVars, resumeVars>>

\* writePersistedHappySession(session, extra), sessionRegistry.ts:102-130
writePersistedHappySession(session, extra) ==
    LET candidate == PersistedCandidate(session, extra, clock)
        ok == PersistedSchemaOk(candidate)
        persisted == PersistedSchemaData(candidate)
        filePath == SessionPath(persisted.sessionId)
    IN /\ sessions' = IF ok
                      THEN writeJsonAtomic(ensureDir(sessions), filePath, persisted)
                      ELSE ensureDir(sessions)
       /\ lastSessionCall' =
              [op |-> "writePersistedHappySession",
               sessionId |-> IF Has(session, "id") THEN session.id ELSE "",
               outcome |-> IF ok THEN "returned" ELSE "raised ZodError",
               result |-> <<>>,
               storeChanged |-> sessions' # ensureDir(sessions),
               found |-> "absent"]
       /\ lastPersist' =
              IF ok
              THEN [lastPersist EXCEPT ![persisted.sessionId] =
                       <<[session |-> session, extra |-> extra, now |-> clock,
                          over |-> ReplacesOlderResume(sessions, filePath,
                                                       clock)]>>]
              ELSE lastPersist
       /\ origin' = IF ok
                    THEN [origin EXCEPT ![persisted.sessionId] = "written"]
                    ELSE origin
       /\ UNCHANGED <<diffVars, regVars, resumeVars>>

\* What readPersistedHappySession returns for the file: the data, or null
\* (no element) when readFile or JSON.parse throws or safeParse fails,
\* sessionRegistry.ts:134-142.
ReadPersisted(f, filePath) ==
    IF ~Readable(f, filePath) THEN <<>>
    ELSE IF ~JsonWellFormed(ReadFile(f, filePath)) THEN <<>>
    ELSE LET parsed == JsonParse(ReadFile(f, filePath))
         IN IF ~PersistedSchemaOk(parsed) THEN <<>>
            ELSE <<PersistedSchemaData(parsed)>>

\* readPersistedHappySession with no catch around readFile and JSON.parse.
readPersistedHappySessionUncaught(sessionId) ==
    LET filePath == SessionPath(sessionId)
        throws == ~Readable(sessions, filePath)
                      \/ ~JsonWellFormed(ReadFile(sessions, filePath))
    IN /\ lastSessionCall' =
              [op |-> "readPersistedHappySession", sessionId |-> sessionId,
               outcome |-> IF throws THEN "raised" ELSE "returned",
               result |-> ReadPersisted(sessions, filePath),
               storeChanged |-> FALSE,
               found |-> origin[sessionId]]
       /\ UNCHANGED <<sessions, lastPersist, origin>>
       /\ UNCHANGED <<diffVars, regVars, resumeVars>>

\* readPersistedHappySession(sessionId), sessionRegistry.ts:132-143
readPersistedHappySession(sessionId) ==
    LET filePath == SessionPath(sessionId)
    IN /\ UNCHANGED <<sessions, lastPersist, origin>>
       /\ lastSessionCall' =
              [op |-> "readPersistedHappySession", sessionId |-> sessionId,
               outcome |-> "returned",
               result |-> ReadPersisted(sessions, filePath),
               storeChanged |-> sessions' # sessions,
               found |-> origin[sessionId]]
       /\ UNCHANGED <<diffVars, regVars, resumeVars>>

\* What another program may leave in the file of a session: a record the
\* schema rejects, and cut-off JSON.
ForeignSessionTexts ==
    {[origin |-> "rejected",
      text |-> JsonStringify(
          [sessionId |-> "s1", encryptionKeyBase64 |-> "TQ==",
          encryptionVariant |-> "legacy", metadata |-> "f", metadataVersion |-> 3,
          agentState |-> NULL, agentStateVersion |-> 3, flavor |-> "other",
          createdAt |-> 1, updatedAt |-> 2])],
     [origin |-> "cut off",
      text |-> <<OpenBrace, <<"sessionId", "string", "s1">>>>]}

\* Another program puts a file under the name of session s1.
ForeignSessionPut(put) ==
    LET name == SessionPath("s1")
    IN /\ sessions.exists
       /\ sessions' = Reclaim(WriteFd(OpenTruncate(sessions, {}, name),
                                      OpenFd(sessions, {}, name), put.text), {})
       /\ lastPersist' = [lastPersist EXCEPT !["s1"] = <<>>]
       /\ origin' = [origin EXCEPT !["s1"] = put.origin]
       /\ UNCHANGED lastSessionCall
       /\ UNCHANGED <<diffVars, regVars, resumeVars>>

\* Another program makes a directory under the name of session s3: readFile
\* of it throws.
ForeignSessionMkdir ==
    LET name == SessionPath("s3")
        i == OpenFd(sessions, {}, name)
    IN /\ sessions.exists
       /\ sessions.dir[name] = 0
       /\ sessions' = [sessions EXCEPT !.dir[name] = i,
                          !.inodes[i] = [kind |-> "dir", text |-> <<>>]]
       /\ origin' = [origin EXCEPT !["s3"] = "directory"]
       /\ UNCHANGED <<lastPersist, lastSessionCall>>
       /\ UNCHANGED <<diffVars, regVars, resumeVars>>

SessionsNext ==
    \/ Tick
    \/ \E input \in SessionInputs : writePersistedHappySession(input[1], input[2])
    \/ \E sessionId \in SessionIds \cup OtherIds :
          readPersistedHappySession(sessionId)
    \/ \E put \in ForeignSessionTexts : ForeignSessionPut(put)
    \/ ForeignSessionMkdir

----------------------------------------------------------------------------
(* Strings *)

CharAt(s, i) == SubSeq(s, i, i)

\* s.startsWith(prefix), s.endsWith(suffix)
StartsWith(s, prefix) ==
    Len(s) >= Len(prefix) /\ SubSeq(s, 1, Len(prefix)) = prefix

EndsWith(s, suffix) ==
    Len(s) >= Len(suffix) /\ SubSeq(s, Len(s) - Len(suffix) + 1, Len(s)) = suffix

RECURSIVE TrimStart(_)
TrimStart(s) ==
    IF Len(s) > 0 /\ CharAt(s, 1) \in {" ", "\t", "\n", "\r"}
    THEN TrimStart(SubSeq(s, 2, Len(s))) ELSE s

RECURSIVE TrimEnd(_)
TrimEnd(s) ==
    IF Len(s) > 0 /\ CharAt(s, Len(s)) \in {" ", "\t", "\n", "\r"}
    THEN TrimEnd(SubSeq(s, 1, Len(s) - 1)) ELSE s

\* s.trim()
Trim(s) == TrimEnd(TrimStart(s))

IsDigit(c) == \E d \in 0..9 : CharAt("0123456789", d + 1) = c

\* The value of the longest prefix of digits of s, read after acc.
RECURSIVE DigitsValue(_, _)
DigitsValue(s, acc) ==
    IF Len(s) > 0 /\ IsDigit(CharAt(s, 1))
    THEN DigitsValue(SubSeq(s, 2, Len(s)), 10 * acc + (CHOOSE d \in 0..9 :
                                       CharAt("0123456789", d + 1) = CharAt(s, 1)))
    ELSE acc

\* Number.parseInt(s, 10): white space is skipped, a sign is read, then the
\* digits up to the first character that is none; <<>> is NaN, when no digit
\* is there.
ParseInt(s) ==
    LET t == TrimStart(s)
        signed == Len(t) > 0 /\ CharAt(t, 1) \in {"+", "-"}
        digits == IF signed THEN SubSeq(t, 2, Len(t)) ELSE t
    IN IF Len(digits) = 0 \/ ~IsDigit(CharAt(digits, 1)) THEN <<>>
       ELSE IF signed /\ CharAt(t, 1) = "-" THEN <<0 - DigitsValue(digits, 0)>>
       ELSE <<DigitsValue(digits, 0)>>

\* basename(path)
RECURSIVE Basename(_)
Basename(path) ==
    IF \E i \in 1..Len(path) : CharAt(path, i) = "/"
    THEN Basename(SubSeq(path,
             (CHOOSE i \in 1..Len(path) : CharAt(path, i) = "/") + 1, Len(path)))
    ELSE path

----------------------------------------------------------------------------
(* resumeCodex.ts: the choice of the transcript file *)

\* getCodexSessionsRootDir(), resumeCodex.ts:15-18, with CODEX_HOME = /c.
CodexRoot == "/c/sessions"

\* The entries of the spec's example, a second transcript of session 222 in a
\* directory of the root, one named after a path, and what is not a
\* transcript: a text file, a directory, a transcript outside the root.
FileA == [file |-> CodexRoot \o "/a-111.jsonl", mtimeMs |-> 5, kind |-> "file"]
FileB == [file |-> CodexRoot \o "/b-222.jsonl", mtimeMs |-> 3, kind |-> "file"]
FileC == [file |-> CodexRoot \o "/d/c-222.jsonl", mtimeMs |-> 4, kind |-> "file"]
FileD == [file |-> CodexRoot \o "/e-2/9.jsonl", mtimeMs |-> 5, kind |-> "file"]
FileTxt == [file |-> CodexRoot \o "/a-333.txt", mtimeMs |-> 9, kind |-> "file"]
DirD == [file |-> CodexRoot \o "/d", mtimeMs |-> 9, kind |-> "dir"]
FileOut == [file |-> "/w/t.jsonl", mtimeMs |-> 1, kind |-> "file"]

\* Number of rollouts in the largest root.
MaxRollouts == 22

\* The file systems a resume finds, each in the order a scan enumerates it.
Worlds ==
    {<<>>,
     <<FileTxt, FileOut>>,
     <<FileA, FileB, FileOut>>,
     <<FileB, FileA, FileTxt, DirD, FileC, FileOut>>,
     <<DirD, FileC, FileB, FileA>>,
     <<FileA, FileD>>,
     <<FileD, FileA, FileB>>,
     [i \in 1..(MaxRollouts - 2) |->
         [file |-> CodexRoot \o "/r-" \o ToString(i) \o ".jsonl", mtimeMs |-> i,
          kind |-> "file"]],
     [i \in 1..MaxRollouts |->
         [file |-> CodexRoot \o "/r-" \o ToString(i) \o ".jsonl", mtimeMs |-> i,
          kind |-> "file"]]}

\* collectCodexSessionFilesRecursive(rootDir), resumeCodex.ts:20-36: the files
\* under the root whose name ends with .jsonl, in the order of the scan.
collectCodexSessionFilesRecursive(world) ==
    SelectSeq(world, LAMBDA e : /\ StartsWith(e.file, CodexRoot \o "/")
                                /\ e.kind = "file"
                                /\ EndsWith(e.file, ".jsonl"))

\* InsertByMtime for a sort that puts the oldest first.
RECURSIVE InsertOldestFirst(_, _)
InsertOldestFirst(sorted, entry) ==
    IF sorted = <<>> THEN <<entry>>
    ELSE IF Head(sorted).mtimeMs > entry.mtimeMs THEN <<entry>> \o sorted
    ELSE <<Head(sorted)>> \o InsertOldestFirst(Tail(sorted), entry)

\* entries with entry inserted before the first that is older: what a stable
\* sort by (a, b) => b.mtimeMs - a.mtimeMs does with each entry in turn.
RECURSIVE InsertByMtime(_, _)
InsertByMtime(sorted, entry) ==
    IF sorted = <<>> THEN <<entry>>
    ELSE IF Head(sorted).mtimeMs < entry.mtimeMs THEN <<entry>> \o sorted
    ELSE <<Head(sorted)>> \o InsertByMtime(Tail(sorted), entry)

RECURSIVE SortByMtime(_, _)
SortByMtime(sorted, entries) ==
    IF entries = <<>> THEN sorted
    ELSE SortByMtime(InsertByMtime(sorted, Head(entries)), Tail(entries))

\* listCodexTranscriptFiles(), resumeCodex.ts:38-54
listCodexTranscriptFiles(world) ==
    SortByMtime(<<>>, collectCodexSessionFilesRecursive(world))

\* findCodexResumeFile whose filter looks for the id anywhere before .jsonl
\* and not after a dash.
findCodexResumeFileLoose(world, sessionId) ==
    IF Falsy(sessionId) THEN NULL
    ELSE LET candidates ==
                 SelectSeq(listCodexTranscriptFiles(world),
                           LAMBDA e : EndsWith(e.file, sessionId \o ".jsonl"))
         IN IF candidates = <<>> THEN NULL ELSE candidates[1].file

\* findCodexResumeFile(sessionId), resumeCodex.ts:56-62
findCodexResumeFile(world, sessionId) ==
    IF Falsy(sessionId) THEN NULL
    ELSE LET candidates ==
                 SelectSeq(listCodexTranscriptFiles(world),
                           LAMBDA e : EndsWith(e.file, "-" \o sessionId \o ".jsonl"))
         IN IF candidates = <<>> THEN NULL ELSE candidates[1].file

\* fs.statSync(path).isFile() is true: it does not throw, and it is a file.
StatIsFile(world, path) ==
    \E i \in 1..Len(world) : world[i].file = path /\ world[i].kind = "file"

\* candidates.slice(0, 20), resumeCodex.ts:96
MaxShown == 20

Returned(value) == [outcome |-> "returned", value |-> value]

Raised(error) == [outcome |-> "raised", value |-> error]

\* The resume argument: undefined, true, or a string.
Undefined == <<"undefined">>
ResumeMostRecent == <<"true">>
ResumeString(text) == <<"string", text>>

\* resolveInitialCodexResumeTranscriptFile(resume), resumeCodex.ts:64-119,
\* on a terminal or not, with the line the user answers the prompt with.
resolveInitialCodexResumeTranscriptFile(world, req) ==
    IF req.resume = Undefined THEN Returned(NULL)
    ELSE IF req.resume[1] = "string"
    THEN LET resume == req.resume[2]
         IN IF Falsy(resume) THEN Returned(NULL)
            ELSE IF StatIsFile(world, resume) THEN Returned(resume)
            ELSE LET resumeFile == findCodexResumeFile(world, resume)
                 IN IF Falsy(resumeFile)
                    THEN Raised("Could not find Codex resume transcript")
                    ELSE Returned(resumeFile)
    ELSE LET candidates == listCodexTranscriptFiles(world)
             shown == SubSeq(candidates, 1,
                             IF Len(candidates) < MaxShown THEN Len(candidates)
                             ELSE MaxShown)
             answer == Trim(req.answer)
             idx == ParseInt(answer)
         IN IF Len(candidates) = 0 THEN Returned(NULL)
            ELSE IF ~req.hasTTY THEN Returned(candidates[1].file)
            ELSE IF Falsy(answer) THEN Returned(NULL)
            ELSE IF idx = <<>> \/ idx[1] < 1 \/ idx[1] > Len(shown)
            THEN Raised("Invalid selection")
            ELSE Returned(shown[idx[1]].file)

\* The calls of resumeCodex whose choice of a file is looked at.
ResolveRequests ==
    {[resume |-> Undefined, hasTTY |-> FALSE, answer |-> ""]}
    \cup {[resume |-> ResumeString(s), hasTTY |-> tty, answer |-> ""] :
              s \in {"", "222", "22", "111", "999", "2/9", "333", "/w/t.jsonl", "/w/gone.jsonl",
                  CodexRoot \o "/d", CodexRoot \o "/a-111.jsonl"},
              tty \in BOOLEAN}
    \cup {[resume |-> ResumeMostRecent, hasTTY |-> FALSE, answer |-> a] :
              a \in {"", "2", "abc"}}
    \cup {[resume |-> ResumeMostRecent, hasTTY |-> TRUE, answer |-> a] :
              a \in {"", " ", "1", "2", " 3 ", "20", "21", "22", "0", "-1", "+2", "abc", "2x",
                  "1.9", "x2"}}

\* The result resumeCodex returns when no transcript is resumed,
\* resumeCodex.ts:309-314 and :375-380.
AllNull ==
    [resumeTranscriptFile |-> NULL, resumeContext |-> NULL,
     resumeContextForUi |-> NULL, resumeExecSummary |-> NULL]

\* No transcript is read and no subprocess runs.
ExecIdle ==
    /\ transcript = <<>>
    /\ meta = <<>>
    /\ child = <<>>
    /\ stdout = ""
    /\ stderr = ""
    /\ summary = <<>>
    /\ messages = <<>>

\* resumeCodex(resume) is called on some file system.
ResolveInit ==
    /\ request \in ResolveRequests
    /\ codexFiles \in Worlds
    /\ resumePc = "called"
    /\ chosen = <<>>
    /\ result = <<>>
    /\ ExecIdle

\* resumeCodex.ts:307-315: the file is chosen; the error of the choice goes to
\* the caller, and no file means the all-null result.
Resolve ==
    LET resolved == resolveInitialCodexResumeTranscriptFile(codexFiles, request)
    IN /\ resumePc = "called"
       /\ chosen' = <<resolved>>
       /\ resumePc' = IF resolved.outcome = "raised" THEN "raised"
                      ELSE IF Falsy(resolved.value) THEN "returned"
                      ELSE "chosen"
       /\ result' = IF resolved.outcome = "raised" THEN <<>>
                    ELSE IF Falsy(resolved.value) THEN <<AllNull>>
                    ELSE <<>>
       /\ UNCHANGED <<request, codexFiles, execVars>>
       /\ UNCHANGED <<diffVars, regVars, storeVars>>

ResolveNext == Resolve

----------------------------------------------------------------------------
(* resumeCodex.ts: the exec summary *)

\* pieces[lo] \o ... \o pieces[hi], by halves; empty when there is none.
RECURSIVE Concat(_, _, _, _)
Concat(pieces, lo, hi, empty) ==
    IF lo > hi THEN empty
    ELSE IF lo = hi THEN pieces[lo]
    ELSE Concat(pieces, lo, (lo + hi) \div 2, empty)
         \o Concat(pieces, (lo + hi) \div 2 + 1, hi, empty)

\* The bytes the subprocess writes for a text, in UTF-8. A byte below 128 is
\* written as the character it encodes. The one character beyond ASCII of the
\* model is U+00E9, written ^ in a text, whose bytes are C3 and A9.
Utf8Encode(s) ==
    Concat([i \in 1..Len(s) |-> IF CharAt(s, i) = "^" THEN <<"C3", "A9">>
                                ELSE <<CharAt(s, i)>>],
           1, Len(s), <<>>)

\* chunk.toString('utf8'), resumeCodex.ts:173 and :176: a lead byte without
\* its continuation and a continuation without its lead are each replaced by
\* U+FFFD, written ? in a text.
Utf8Decode(bytes) ==
    Concat([i \in 1..Len(bytes) |->
               IF Len(bytes[i]) = 1 THEN bytes[i]
               ELSE IF bytes[i] = "C3" /\ i < Len(bytes) /\ bytes[i + 1] = "A9"
               THEN "^"
               ELSE IF bytes[i] = "A9" /\ i > 1 /\ bytes[i - 1] = "C3" THEN ""
               ELSE "?"],
           1, Len(bytes), "")

\* s.split(sep), sep one character
RECURSIVE Split(_, _)
Split(s, sep) ==
    IF \E i \in 1..Len(s) : CharAt(s, i) = sep
    THEN LET at == CHOOSE i \in 1..Len(s) :
                       /\ CharAt(s, i) = sep
                       /\ \A j \in 1..(i - 1) : CharAt(s, j) # sep
         IN <<SubSeq(s, 1, at - 1)>> \o Split(SubSeq(s, at + 1, Len(s)), sep)
    ELSE <<s>>

\* The event of an agent message as codex prints it, up to its text; "}} ends
\* it.
AgentMessagePrefix ==
    "{\"type\":\"item.completed\",\"item\":{\"type\":\"agent_message\",\"text\":\""

AgentMessageLine(text) == AgentMessagePrefix \o text \o "\"}}"

\* The string a JSON string body stands for, <<text>>, or <<>> when it is none:
\* a quote ends the string early, a control character or an unknown escape is
\* a syntax error.
RECURSIVE JsonStringBody(_)
JsonStringBody(s) ==
    IF s = "" THEN <<"">>
    ELSE LET c == CharAt(s, 1)
             escaped == Len(s) >= 2 /\ c = "\\" /\ CharAt(s, 2) \in {"n", "t", "\"", "\\"}
             char == IF ~escaped THEN c
                     ELSE IF CharAt(s, 2) = "n" THEN "\n"
                     ELSE IF CharAt(s, 2) = "t" THEN "\t"
                     ELSE CharAt(s, 2)
             rest == JsonStringBody(SubSeq(s, IF escaped THEN 3 ELSE 2, Len(s)))
         IN IF c \in {"\"", "\t", "\r", "\n"} \/ (c = "\\" /\ ~escaped) \/ rest = <<>>
            THEN <<>>
            ELSE <<char \o rest[1]>>

\* resumeCodex.ts:185-186, on the lines of the events codex prints: <<text>>
\* when JSON.parse(line) is an item.completed event of an agent_message whose
\* text is a string, <<>> when the line is no JSON or an event of another shape.
AgentMessageText(line) ==
    IF /\ Len(line) >= Len(AgentMessageLine(""))
       /\ StartsWith(line, AgentMessagePrefix)
       /\ EndsWith(line, "\"}}")
    THEN JsonStringBody(SubSeq(line, Len(AgentMessagePrefix) + 1, Len(line) - 3))
    ELSE <<>>

\* resumeCodex.ts:182-192: best after the loop over the lines, from best.
RECURSIVE BestOf(_, _)
BestOf(lines, best) ==
    IF lines = <<>> THEN best
    ELSE BestOf(Tail(lines),
                IF AgentMessageText(Head(lines)) # <<>>
                THEN AgentMessageText(Head(lines))[1] ELSE best)

\* resumeCodex.ts:179-208: what the handler of 'close' resolves the promise
\* with.
SummaryOnClose(out, err) ==
    LET split == Split(out, "\n")
        lines == SelectSeq([i \in 1..Len(split) |-> Trim(split[i])],
                           LAMBDA l : l # "")
        best == BestOf(lines, NULL)
        notFound == "Session not found"
    IN IF ~Falsy(best) /\ Trim(best) # "" THEN Trim(best)
       ELSE IF \E i \in 1..(Len(err) - Len(notFound) + 1) :
                   SubSeq(err, i, i + Len(notFound) - 1) = notFound
       THEN NULL
       ELSE NULL

----------------------------------------------------------------------------
(* resumeCodex.ts: the transcript *)

\* The values JSON.parse gives, each with its type: strings and objects, and
\* as they are written, [t |-> "number", n |-> 5], [t |-> "array", a |-> <<>>],
\* [t |-> "null"] and, where a key is missing, [t |-> "undefined"].
Str(s) == [t |-> "string", s |-> s]
Obj(fields) == [t |-> "object", o |-> fields]

\* value?.key
Get(value, key) ==
    IF value.t = "object" /\ key \in DOMAIN value.o THEN value.o[key]
    ELSE [t |-> "undefined"]

\* value === text
Is(value, text) == value.t = "string" /\ value.s = text

\* value && typeof value === 'object'
TruthyObject(value) == value.t \in {"object", "array"}

\* Boolean(value)
Truthy(value) ==
    \/ TruthyObject(value)
    \/ value.t = "string" /\ value.s # ""
    \/ value.t = "number" /\ value.n # 0

\* A line of a transcript is <<value>> when JSON.parse(line) gives value, and
\* <<>> when the line is blank or JSON.parse throws.
NotJson == <<>>

\* parts.join(sep)
Join(parts, sep) ==
    Concat([i \in 1..Len(parts) |-> (IF i > 1 THEN sep ELSE "") \o parts[i]],
           1, Len(parts), "")

\* resumeCodex.ts:125
MetaLimit == 200

\* resumeCodex.ts:131 and :247: the line is a session_meta with a payload.
IsSessionMeta(line) ==
    /\ line # NotJson
    /\ Is(Get(line[1], "type"), "session_meta")
    /\ TruthyObject(Get(line[1], "payload"))

\* parseCodexSessionMetaFromTranscript(file), resumeCodex.ts:121-144, on what
\* the file holds: a file that does not read gives no id.
parseCodexSessionMetaFromTranscript(file) ==
    LET limit == IF Len(file.lines) < MetaLimit THEN Len(file.lines) ELSE MetaLimit
        found == {i \in 1..limit : IsSessionMeta(file.lines[i])}
        first == CHOOSE i \in found : \A j \in found : i <= j
        payload == Get(file.lines[first][1], "payload")
        string(value) == IF value.t = "string" THEN value.s ELSE NULL
    IN IF ~file.readable \/ found = {}
       THEN [sessionId |-> NULL, cwd |-> NULL]
       ELSE [sessionId |-> string(Get(payload, "id")),
             cwd |-> string(Get(payload, "cwd"))]

\* resumeCodex.ts:224
MAX_MESSAGE_CHARS == 8000

\* pushMessage(role, text), resumeCodex.ts:226-240: the messages after the
\* call. The ellipsis of the truncation marker is written as three dots.
pushMessage(msgs, role, text) ==
    LET trimmed == Trim(text)
        last == msgs[Len(msgs)]
        clipped == IF Len(trimmed) > MAX_MESSAGE_CHARS
                   THEN SubSeq(trimmed, 1, MAX_MESSAGE_CHARS) \o "\n...[truncated]"
                   ELSE trimmed
    IN IF trimmed = "" THEN msgs
       ELSE IF Len(msgs) > 0 /\ last.role = role /\ last.text = trimmed
       THEN msgs
       ELSE Append(msgs, [role |-> role, text |-> clipped])

\* resumeCodex.ts:253-273 and :275-283: the messages after one line that is
\* JSON and no session_meta.
PushLine(msgs, parsed) ==
    LET type == Get(parsed, "type")
        payload == Get(parsed, "payload")
        role == Get(payload, "role")
        content == Get(payload, "content")
        texts == SelectSeq(content.a,
                           LAMBDA c : TruthyObject(c)
                                      /\ Get(c, "text").t = "string")
        parts == IF content.t = "array"
                 THEN [i \in 1..Len(texts) |-> Get(texts[i], "text").s]
                 ELSE IF content.t = "string" THEN <<content.s>>
                 ELSE <<>>
        message == Get(payload, "message")
    IN IF /\ Is(type, "response_item") /\ TruthyObject(payload)
          /\ Is(Get(payload, "type"), "message")
          /\ (Is(role, "user") \/ Is(role, "assistant"))
       THEN IF Len(parts) > 0 THEN pushMessage(msgs, role.s, Join(parts, "\n"))
            ELSE msgs
       ELSE IF Is(type, "event_msg") /\ TruthyObject(payload)
       THEN IF Is(Get(payload, "type"), "user_message") /\ message.t = "string"
            THEN pushMessage(msgs, "user", message.s)
            ELSE IF Is(Get(payload, "type"), "agent_message")
                    /\ message.t = "string"
            THEN pushMessage(msgs, "assistant", message.s)
            ELSE msgs
       ELSE msgs

\* resumeCodex.ts:242-287: the messages after the lines, from msgs.
RECURSIVE PushLines(_, _)
PushLines(msgs, lines) ==
    IF lines = <<>> THEN msgs
    ELSE PushLines(PushLine(msgs, Head(lines)[1]), Tail(lines))

\* buildCodexResumeContextFromTranscript(file, opts), resumeCodex.ts:216-304:
\* fs.readFileSync throws when the file does not read. The lines that are
\* blank, no JSON or a session_meta add no message; sessionMeta is the payload
\* of the last session_meta; requested is <<tailCount>>, or <<>> without one.
buildCodexResumeContextFromTranscript(file, requested) ==
    LET lines == file.lines
        msgs == PushLines(<<>>, SelectSeq(lines, LAMBDA l : l # NotJson
                                                          /\ ~IsSessionMeta(l)))
        wanted == IF requested = <<>> THEN 30 ELSE requested[1]
        tailCount == IF wanted > 100 THEN 100 ELSE IF wanted < 0 THEN 0 ELSE wanted
        tail == IF tailCount = 0 THEN <<>>
                ELSE IF tailCount >= Len(msgs) THEN msgs
                ELSE SubSeq(msgs, Len(msgs) - tailCount + 1, Len(msgs))
        metas == {i \in 1..Len(lines) : IsSessionMeta(lines[i])}
        sessionMeta == IF metas = {} THEN [t |-> "null"]
                       ELSE Get(lines[CHOOSE i \in metas :
                                         \A j \in metas : j <= i][1], "payload")
        git == Get(sessionMeta, "git")
        part(label, value) ==
            IF Truthy(value)
            THEN <<label \o (IF value.t = "string" THEN value.s
                             ELSE IF value.t = "number" THEN ToString(value.n)
                             ELSE "[object Object]")>>
            ELSE <<>>
        headerParts == part("cwd: ", Get(sessionMeta, "cwd"))
                       \o part("git.branch: ", Get(git, "branch"))
                       \o part("git.commit: ", Get(git, "commit_hash"))
                       \o part("provider: ", Get(sessionMeta, "model_provider"))
        header == IF Len(headerParts) > 0 THEN Join(headerParts, " | ")
                  ELSE "previous session"
        body == Join([i \in 1..Len(tail) |->
                         "--- " \o tail[i].role \o " ---\n" \o tail[i].text],
                     "\n\n")
    IN IF ~file.readable THEN Raised("readFileSync")
       ELSE Returned(Trim(header \o "\n\n" \o body))

----------------------------------------------------------------------------
(* resumeCodex.ts: resumeCodex after the choice of the file *)

\* The lines of the transcripts of the model.
MetaLine(id, cwd) ==
    <<Obj([type |-> Str("session_meta"),
           payload |-> Obj([id |-> id, cwd |-> cwd,
                            git |-> Obj([branch |-> Str("main")])])])>>

ResponseItem(role, content) ==
    <<Obj([type |-> Str("response_item"),
           payload |-> Obj([type |-> Str("message"), role |-> Str(role),
                            content |-> content])])>>

EventMsg(type, message) ==
    <<Obj([type |-> Str("event_msg"),
           payload |-> Obj([type |-> Str(type), message |-> Str(message)])])>>

File(lines) == [readable |-> TRUE, lines |-> lines]

\* A file whose read throws: removed, or not to be read by this user.
Unreadable == [readable |-> FALSE, lines |-> <<>>]

\* What the chosen file holds when resumeCodex is called.
TranscriptFiles ==
    {Unreadable,
     File(<<>>),
     File(<<ResponseItem("user", [t |-> "array", a |-> <<Obj([text |-> Str("hi")])>>]),
            EventMsg("agent_message", "yo")>>),
     File(<<MetaLine(Str("222"), Str("/w")),
           ResponseItem("user",
                        [t |-> "array", a |-> <<Obj([text |-> Str("hi")])>>]),
            NotJson, EventMsg("agent_message", "yo")>>),
     File(<<MetaLine([t |-> "number", n |-> 222], [t |-> "null"]),
            EventMsg("user_message", "hi")>>),
     File(<<MetaLine(Str(""), Str("/w")), ResponseItem("assistant", Str("yo"))>>),
     File([i \in 1..MetaLimit |-> NotJson]
          \o <<MetaLine(Str("222"), Str("/w")),
               ResponseItem("user", [t |-> "array", a |-> <<Obj([text |-> Str("hi")])>>])>>),
     File(<<NotJson, MetaLine(Str("111"), Str(""))>>
          \o [i \in 1..9 |-> ResponseItem(IF i % 2 = 1 THEN "user" ELSE "assistant",
                                          Str(ToString(i)))])}

\* Lines of codex that are no event of an agent message.
OtherLines ==
    <<"{\"type\":\"item.started\",\"item\":{\"type\":\"agent_message\",\"text\":\"X\"}}",
      "{\"type\":\"item.completed\",\"item\":{\"type\":\"reasoning\",\"text\":\"R\"}}",
      "warning: not json", "",
      "{\"type\":\"turn.completed\"}">>

\* A run of the subprocess: the lines it prints, each ended by a line feed,
\* the chunks its output and its error stream arrive in, cut after the
\* positions of cuts, and whether it is started and exits.
Run(lines, cuts, errText, errCuts, exits) ==
    LET chunks(bytes, at) ==
            [i \in 1..(Len(at) + 1) |->
                SubSeq(bytes, IF i = 1 THEN 1 ELSE at[i - 1] + 1,
                       IF i > Len(at) THEN Len(bytes) ELSE at[i])]
    IN [printed |-> lines,
        out |-> IF lines = <<>> THEN <<>>
                ELSE chunks(Utf8Encode(Join(lines, "\n") \o "\n"), cuts),
        err |-> IF errText = "" THEN <<>> ELSE chunks(Utf8Encode(errText), errCuts),
        fails |-> FALSE, exits |-> exits, error |-> FALSE, closed |-> FALSE]

\* The runs of the subprocess of the model; the first is the subprocess that
\* is not started: 'error', then 'close'. The text caf^ ends with U+00E9, whose
\* two bytes are the 4th and the 5th after the prefix of the line.
ChildRuns ==
    {[Run(<<>>, <<>>, "", <<>>, TRUE) EXCEPT !.fails = TRUE],
     Run(<<>>, <<>>, "", <<>>, TRUE),
     Run(<<>>, <<>>, "Error: Session not found\n", <<>>, TRUE),
     Run(<<>>, <<>>, "Error: Session not found\n", <<10>>, TRUE),
     Run(<<AgentMessageLine("A")>>, <<>>, "", <<>>, FALSE),
     Run(<<AgentMessageLine("A")>>, <<>>, "", <<>>, TRUE),
     Run(<<AgentMessageLine("A")>>, <<>>, "Error: Session not found\n", <<>>, TRUE),
     Run(<<AgentMessageLine("A"), OtherLines[1], AgentMessageLine("B"),
           OtherLines[2]>>, <<>>, "", <<>>, TRUE),
     Run(<<AgentMessageLine("A"), OtherLines[3], AgentMessageLine("B")>>,
         <<30, 100>>, "", <<>>, TRUE),
     Run(<<AgentMessageLine("B"), OtherLines[4], AgentMessageLine("A"),
           OtherLines[5]>>, <<>>, "warning\n", <<>>, TRUE),
     Run(OtherLines, <<>>, "", <<>>, TRUE),
     Run(<<AgentMessageLine("A"), AgentMessageLine("  ")>>, <<>>, "", <<>>, TRUE),
     Run(<<AgentMessageLine(" \\n A \\\"b\\\" ")>>, <<>>, "", <<>>, TRUE),
     Run(<<AgentMessageLine("caf^")>>, <<>>, "", <<>>, TRUE),
     Run(<<AgentMessageLine("caf^")>>, <<Len(AgentMessagePrefix) + 3>>, "",
         <<>>, TRUE),
     Run(<<AgentMessageLine("caf^")>>, <<Len(AgentMessagePrefix) + 4>>, "",
         <<>>, TRUE)}

\* The promise is settled by the first call of resolve; the calls after it have
\* no effect.
Settle(value, by) ==
    IF summary = <<>> THEN <<[value |-> value, by |-> by]>> ELSE summary

\* resumeCodex.ts:318-320: the id of the session is read from the transcript;
\* without one there is no exec summary.
ParseMeta ==
    /\ resumePc = "chosen"
    /\ meta' = <<parseCodexSessionMetaFromTranscript(transcript)>>
    /\ resumePc' = IF Falsy(meta'[1].sessionId) THEN "build" ELSE "spawn"
    /\ UNCHANGED <<messages, request, codexFiles, chosen, result, transcript,
                   child, stdout, stderr, summary>>
    /\ UNCHANGED <<diffVars, regVars, storeVars>>

\* resumeCodex.ts:164-170: codex is spawned, and the promise is awaited.
Spawn(run) ==
    /\ resumePc = "spawn"
    /\ child' = <<run>>
    /\ stdout' = ""
    /\ stderr' = ""
    /\ resumePc' = "awaiting"
    /\ UNCHANGED <<messages, request, codexFiles, chosen, result, transcript,
                   meta, summary>>
    /\ UNCHANGED <<diffVars, regVars, storeVars>>

\* resumeCodex.ts:172-174: a chunk of the output arrives.
StdoutData ==
    /\ child # <<>>
    /\ child[1].out # <<>>
    /\ stdout' = stdout \o Utf8Decode(Head(child[1].out))
    /\ child' = <<[child[1] EXCEPT !.out = Tail(@)]>>
    /\ UNCHANGED <<messages, request, codexFiles, resumePc, chosen, result,
                   transcript, meta, stderr, summary>>
    /\ UNCHANGED <<diffVars, regVars, storeVars>>

\* resumeCodex.ts:175-177: a chunk of the error stream arrives.
StderrData ==
    /\ child # <<>>
    /\ child[1].err # <<>>
    /\ stderr' = stderr \o Utf8Decode(Head(child[1].err))
    /\ child' = <<[child[1] EXCEPT !.err = Tail(@)]>>
    /\ UNCHANGED <<messages, request, codexFiles, resumePc, chosen, result,
                   transcript, meta, stdout, summary>>
    /\ UNCHANGED <<diffVars, regVars, storeVars>>

\* resumeCodex.ts:210-212: 'error', when codex could not be spawned.
ChildError ==
    /\ child # <<>>
    /\ child[1].fails
    /\ ~child[1].error
    /\ child' = <<[child[1] EXCEPT !.error = TRUE]>>
    /\ summary' = Settle(NULL, "error")
    /\ UNCHANGED <<messages, request, codexFiles, resumePc, chosen, result,
                   transcript, meta, stdout, stderr>>
    /\ UNCHANGED <<diffVars, regVars, storeVars>>

\* resumeCodex.ts:179-208: 'close', once the process has ended and its streams
\* are read to their end.
ChildClose ==
    /\ child # <<>>
    /\ child[1].exits
    /\ ~child[1].closed
    /\ child[1].fails => child[1].error
    /\ child[1].out = <<>>
    /\ child[1].err = <<>>
    /\ child' = <<[child[1] EXCEPT !.closed = TRUE]>>
    /\ summary' = Settle(SummaryOnClose(stdout, stderr), "close")
    /\ UNCHANGED <<messages, request, codexFiles, resumePc, chosen, result,
                   transcript, meta, stdout, stderr>>
    /\ UNCHANGED <<diffVars, regVars, storeVars>>

\* An await that a timer ends as well, the summary then being null.
AwaitTimingOut ==
    /\ resumePc = "awaiting"
    /\ resumePc' = "build"
    /\ UNCHANGED <<request, codexFiles, chosen, result, execVars>>
    /\ UNCHANGED <<diffVars, regVars, storeVars>>

\* resumeCodex.ts:322-340: the await ends once the promise is settled.
Await ==
    /\ resumePc = "awaiting"
    /\ summary # <<>>
    /\ resumePc' = "build"
    /\ UNCHANGED <<request, codexFiles, chosen, result, execVars>>
    /\ UNCHANGED <<diffVars, regVars, storeVars>>

\* The transcript is removed while resumeCodex awaits the subprocess.
TranscriptLost ==
    /\ resumePc = "awaiting"
    /\ transcript.readable
    /\ transcript' = Unreadable
    /\ UNCHANGED <<messages, request, codexFiles, resumePc, chosen, result, meta,
                   child, stdout, stderr, summary>>
    /\ UNCHANGED <<diffVars, regVars, storeVars>>

\* resumeCodex.ts:342-372: the result built from the transcript, with tails of
\* 30 and of 8 messages, and the summary.
ResumeResult(file, path, execSummary) ==
    LET transcriptTail == buildCodexResumeContextFromTranscript(file, <<30>>)
        transcriptTailForUi == buildCodexResumeContextFromTranscript(file, <<8>>)
        summaryBlock == IF Falsy(execSummary) THEN <<>>
                        ELSE <<"## Resume summary (from codex exec resume)\n\n"
                               \o execSummary>>
    IN [resumeTranscriptFile |-> path,
        resumeContext |->
            Join(summaryBlock
                 \o <<"## Recent messages (from transcript)\n\n"
                      \o transcriptTail.value>>, "\n\n"),
        resumeContextForUi |->
            Join(<<"**Resume context injected**", "- Transcript: " \o path, "">>
                 \o summaryBlock
                 \o <<"## Recent messages (from transcript; last 8)\n\n"
                      \o transcriptTailForUi.value>>, "\n"),
        resumeExecSummary |-> execSummary]

\* BuildContext without the catch of resumeCodex.ts:373: what
\* buildCodexResumeContextFromTranscript throws goes to the caller.
BuildContextUncaught ==
    /\ resumePc = "build"
    /\ result' =
         IF buildCodexResumeContextFromTranscript(transcript, <<30>>).outcome
            = "raised"
         THEN <<>>
         ELSE <<ResumeResult(transcript, chosen[1].value,
                             IF summary = <<>> THEN NULL ELSE summary[1].value)>>
    /\ resumePc' = IF result' = <<>> THEN "raised" ELSE "returned"
    /\ UNCHANGED <<request, codexFiles, chosen, execVars>>
    /\ UNCHANGED <<diffVars, regVars, storeVars>>

\* resumeCodex.ts:342-381: the contexts are built and the result is returned;
\* whatever is thrown is caught, and the result is then all-null.
BuildContext ==
    /\ resumePc = "build"
    /\ result' =
         IF buildCodexResumeContextFromTranscript(transcript, <<30>>).outcome
            = "raised"
         THEN <<AllNull>>
         ELSE <<ResumeResult(transcript, chosen[1].value,
                             IF summary = <<>> THEN NULL ELSE summary[1].value)>>
    /\ resumePc' = "returned"
    /\ UNCHANGED <<request, codexFiles, chosen, execVars>>
    /\ UNCHANGED <<diffVars, regVars, storeVars>>

\* resumeCodex is called, on the files and with the requests whose whole
\* course is looked at.
ResumeInit ==
    /\ request \in
         {[resume |-> Undefined, hasTTY |-> FALSE, answer |-> ""],
          [resume |-> ResumeString("222"), hasTTY |-> FALSE, answer |-> ""],
          [resume |-> ResumeString("999"), hasTTY |-> FALSE, answer |-> ""],
          [resume |-> ResumeMostRecent, hasTTY |-> FALSE, answer |-> ""],
          [resume |-> ResumeMostRecent, hasTTY |-> TRUE, answer |-> ""],
          [resume |-> ResumeMostRecent, hasTTY |-> TRUE, answer |-> "7"]}
    /\ codexFiles \in {<<>>, <<FileA, FileB, FileOut>>}
    /\ resumePc = "called"
    /\ chosen = <<>>
    /\ result = <<>>
    /\ transcript \in TranscriptFiles
    /\ meta = <<>>
    /\ child = <<>>
    /\ stdout = ""
    /\ stderr = ""
    /\ summary = <<>>
    /\ messages = <<>>

ResumeNext ==
    \/ Resolve
    \/ ParseMeta
    \/ \E run \in ChildRuns : Spawn(run)
    \/ StdoutData
    \/ StderrData
    \/ ChildError
    \/ ChildClose
    \/ Await
    \/ TranscriptLost
    \/ BuildContext

----------------------------------------------------------------------------
(* resumeCodex.ts: the loop over the lines of a transcript *)

\* text n times, by halves
RECURSIVE Repeat(_, _)
Repeat(text, n) ==
    IF n = 0 THEN ""
    ELSE IF n = 1 THEN text
    ELSE Repeat(text, n \div 2) \o Repeat(text, n - n \div 2)

\* A text one character beyond the cap of a message.
Long == Repeat("x", MAX_MESSAGE_CHARS) \o "y"

\* Number of lines of the longest transcript.
MaxLines == 3

\* The lines a transcript is made of.
TranscriptLines ==
    {NotJson, MetaLine(Str("222"), Str("/w")),
     EventMsg("user_message", "hi"),
     ResponseItem("user",
                  [t |-> "array", a |-> <<Obj([text |-> Str(" hi ")])>>]),
     EventMsg("agent_message", "hi"), EventMsg("user_message", ""),
     EventMsg("user_message", SubSeq(Long, 1, MAX_MESSAGE_CHARS)), EventMsg("user_message", Long),
     EventMsg("user_message", Long \o "\n"), ResponseItem("assistant", Str(Long))}

\* The loop has read no line yet.
LinesInit ==
    /\ request = <<>>
    /\ codexFiles = <<>>
    /\ resumePc = "lines"
    /\ chosen = <<>>
    /\ result = <<>>
    /\ transcript = File(<<>>)
    /\ meta = <<>>
    /\ child = <<>>
    /\ stdout = ""
    /\ stderr = ""
    /\ summary = <<>>
    /\ messages = <<>>

\* resumeCodex.ts:242-287: one turn of the loop, on the next line of the file.
ReadLine(line) ==
    /\ resumePc = "lines"
    /\ Len(transcript.lines) < MaxLines
    /\ transcript' = File(Append(transcript.lines, line))
    /\ messages' = IF line = NotJson \/ IsSessionMeta(line) THEN messages
                   ELSE PushLine(messages, line[1])
    /\ UNCHANGED <<request, codexFiles, resumePc, chosen, result, meta, child,
                   stdout, stderr, summary>>
    /\ UNCHANGED <<diffVars, regVars, storeVars>>

LinesNext == \E line \in TranscriptLines : ReadLine(line)

----------------------------------------------------------------------------
\* No resume is in progress.
ResumeIdle ==
    /\ request = <<>>
    /\ codexFiles = <<>>
    /\ resumePc = "idle"
    /\ chosen = <<>>
    /\ result = <<>>
    /\ ExecIdle

----------------------------------------------------------------------------
(* Specifications *)

DiffIdle ==
    /\ DiffInit
    /\ onMessage = "callback"
    /\ disableCodexDiffs = FALSE

\* A DiffProcessor, the registry untouched.
InitDiff == DiffInit /\ RegInit /\ StoreInit /\ ResumeIdle

\* The registry on a new home, the DiffProcessor untouched.
InitMarkers == DiffIdle /\ RegInit /\ StoreInit /\ ResumeIdle

\* The registry under concurrent tasks, the DiffProcessor untouched.
InitTasks == DiffIdle /\ TasksInit /\ StoreInit /\ ResumeIdle

\* The persisted sessions on a new home.
InitSessions == DiffIdle /\ RegInit /\ StoreInit /\ ResumeIdle

SpecSessions == InitSessions /\ [][SessionsNext]_vars

\* A call of resumeCodex, the DiffProcessor and the registry untouched.
InitResolve == DiffIdle /\ RegInit /\ StoreInit /\ ResolveInit

SpecResolve == InitResolve /\ [][ResolveNext]_vars

\* A call of resumeCodex up to its result, and the subprocess it spawns.
InitResume == DiffIdle /\ RegInit /\ StoreInit /\ ResumeInit

SpecResume == InitResume /\ [][ResumeNext]_vars

\* The step of BuildContext, seen on resumePc alone.
Returns == resumePc = "build" /\ resumePc' = "returned"

\* The same, under the scheduling of the event loop: the continuation of a
\* settled promise runs, and the synchronous code after the await runs to its
\* end. Nothing makes the subprocess print, fail or exit.
SpecResumeFair == SpecResume /\ WF_vars(Await) /\ WF_resumePc(Returns)

\* The loop of buildCodexResumeContextFromTranscript over a transcript.
InitLines == DiffIdle /\ RegInit /\ StoreInit /\ LinesInit

SpecLines == InitLines /\ [][LinesNext]_vars

SpecDiff == InitDiff /\ [][DiffNext]_vars

SpecMarkers == InitMarkers /\ [][MarkersNext]_vars

SpecTasks == InitTasks /\ [][TasksNext]_vars

SpecRace == InitTasks /\ [][RaceNext]_vars

----------------------------------------------------------------------------
(* Observations of the DiffProcessor *)

\* The last call delivered exactly one tool-call/tool-call-result pair, and the
\* call carries unifiedDiff.
EmittedOnePair(unifiedDiff) ==
    /\ Len(events) = pre.n + 2
    /\ events[pre.n + 1].type = "tool-call"
    /\ events[pre.n + 1].name = "CodexDiff"
    /\ events[pre.n + 1].unified_diff = unifiedDiff
    /\ events[pre.n + 2].type = "tool-call-result"
    /\ events[pre.n + 2].callId = events[pre.n + 1].callId

\* The last call did not invoke the callback.
EmittedNothing == Len(events) = pre.n

\* The last call left the three fields of the tracker as they were.
FieldsUnchanged ==
    /\ previousDiff = pre.previousDiff
    /\ sentDiff = pre.sentDiff
    /\ patchAppliedThisTurn = pre.patchAppliedThisTurn

\* The unified_diff of every tool-call delivered, in order.
SentDiffs ==
    LET toolCalls == SelectSeq(events, LAMBDA e : e.type = "tool-call")
    IN [i \in 1..Len(toolCalls) |-> toolCalls[i].unified_diff]

\* C1 as stated, read for a processor that has a callback: flush() emits one
\* pair carrying previousDiff exactly when emission is enabled, no patch was
\* marked, previousDiff is set and differs from sentDiff; otherwise it emits
\* nothing and changes no field.
C1_AsStated ==
    (lastOp = "flush" /\ pre.onMessage # NULL) =>
        LET stated == /\ ~disableCodexDiffs
                      /\ ~pre.patchAppliedThisTurn
                      /\ pre.previousDiff # NULL
                      /\ pre.previousDiff # pre.sentDiff
        IN /\ stated <=> EmittedOnePair(pre.previousDiff)
           /\ ~stated => EmittedNothing /\ FieldsUnchanged

\* C1, amended: flush() emits one pair carrying previousDiff exactly when
\* emission is enabled, a callback is registered, no patch was marked,
\* previousDiff is a non-empty string and differs from sentDiff, and it then
\* sets sentDiff to previousDiff; with no callback registered and the other
\* conditions true it emits nothing but still sets sentDiff; in every other
\* case it emits nothing and leaves the three fields unchanged.
C1_FlushEmitsIffFresh ==
    lastOp = "flush" =>
        LET passes == /\ ~disableCodexDiffs
                      /\ ~pre.patchAppliedThisTurn
                      /\ pre.previousDiff # NULL
                      /\ pre.previousDiff # ""
                      /\ pre.previousDiff # pre.sentDiff
        IN /\ (passes /\ pre.onMessage # NULL) <=> EmittedOnePair(pre.previousDiff)
           /\ ~(passes /\ pre.onMessage # NULL) => EmittedNothing
           /\ passes => /\ sentDiff = pre.previousDiff
                         /\ previousDiff = pre.previousDiff
                         /\ patchAppliedThisTurn = pre.patchAppliedThisTurn
           /\ ~passes => FieldsUnchanged

\* record(A); flush(); flush(): the second flush has emitted nothing and one
\* pair has been delivered in all.
C1_Witness ==
    /\ lastOp = "flush"
    /\ pre.previousDiff = "A"
    /\ pre.sentDiff = "A"
    /\ ~pre.resetSinceSent
    /\ Len(events) = 2
    /\ events[1].unified_diff = "A"

\* C2: two consecutive emitted pairs never carry the same unified_diff, also
\* when reset() and a new record of the same diff lie between them.
C2_NoConsecutiveResend ==
    \A i \in 1..(Len(SentDiffs) - 1) : SentDiffs[i] # SentDiffs[i + 1]

\* A diff was sent, reset() was called, the same diff was recorded again and
\* flush() was called: nothing was emitted.
C2_Witness ==
    /\ lastOp = "flush"
    /\ pre.resetSinceSent
    /\ pre.previousDiff = pre.sentDiff
    /\ pre.previousDiff = "A"
    /\ ~disableCodexDiffs
    /\ ~pre.patchAppliedThisTurn
    /\ Len(SentDiffs) >= 2
    /\ SentDiffs[Len(SentDiffs)] = "A"
    /\ EmittedNothing

\* The flag follows the calls: it is set from markPatchApplied() to the next
\* reset(), and a flush() called in between emits nothing.
PatchSuppresses ==
    /\ markedSinceReset => patchAppliedThisTurn
    /\ (lastOp = "flush" /\ pre.markedSinceReset) =>
           EmittedNothing /\ FieldsUnchanged

\* The last call was a flush() in a turn that follows a turn with a patch:
\* markPatchApplied() was called, then reset(), and a diff that differs from
\* sentDiff was recorded.
FlushAfterPatchTurn ==
    /\ lastOp = "flush"
    /\ pre.everMarked
    /\ ~pre.markedSinceReset
    /\ pre.previousDiff # NULL
    /\ pre.previousDiff # pre.sentDiff

\* C3 as stated, read for a processor that has a callback and emission
\* enabled: between markPatchApplied() and the next reset() no flush() emits;
\* after reset() a recorded diff that differs from sentDiff is emitted by
\* flush() again.
C3_AsStated ==
    /\ PatchSuppresses
    /\ (/\ FlushAfterPatchTurn
        /\ ~disableCodexDiffs
        /\ pre.onMessage # NULL) => EmittedOnePair(pre.previousDiff)

\* C3, amended: between markPatchApplied() and the next reset() no flush()
\* emits, whatever is recorded and whether or not the diff was ever sent;
\* after reset() a recorded non-empty diff that differs from sentDiff is
\* emitted by flush() again when emission is enabled and a callback is
\* registered.
C3_PatchSuppressesUntilReset ==
    /\ PatchSuppresses
    /\ (/\ FlushAfterPatchTurn
        /\ pre.previousDiff # ""
        /\ ~disableCodexDiffs
        /\ pre.onMessage # NULL) => EmittedOnePair(pre.previousDiff)

\* record(A); markPatchApplied(); flush(): nothing was emitted although A was
\* never sent, with emission enabled and a callback registered.
C3_Witness ==
    /\ lastOp = "flush"
    /\ pre.markedSinceReset
    /\ pre.previousDiff = "A"
    /\ pre.sentDiff = NULL
    /\ ~disableCodexDiffs
    /\ pre.onMessage # NULL
    /\ events = <<>>

\* C4: the delivered events are complete pairs: a CodexDiff tool-call directly
\* followed by a completed tool-call-result with the same callId, no result
\* without its call, and no identifier of one emission used by another.
C4_EventsAreCompletePairs ==
    /\ Len(events) % 2 = 0
    /\ \A i \in 1..Len(events) :
          IF i % 2 = 1
          THEN /\ events[i].type = "tool-call"
               /\ events[i].name = "CodexDiff"
               /\ events[i + 1].type = "tool-call-result"
               /\ events[i + 1].status = "completed"
               /\ events[i + 1].callId = events[i].callId
          ELSE events[i].type = "tool-call-result"
    /\ \A i, j \in 1..Len(events) :
          (i + 1) \div 2 # (j + 1) \div 2 =>
              {events[i].callId, events[i].id} \cap
              {events[j].callId, events[j].id} = {}

\* Two pairs have been delivered.
C4_Witness ==
    /\ Len(events) = 4
    /\ lastOp = "flush"
    /\ EmittedOnePair(pre.previousDiff)

\* C21: processDiff(diff) never invokes the callback; with the emission
\* disabled or enabled it sets previousDiff to its argument and leaves sentDiff
\* and patchAppliedThisTurn as they were; only flush() delivers events, and a
\* flush() that emits sends the diff recorded last.
C21_ProcessDiffOnlyRecords ==
    /\ lastOp = "processDiff" =>
           /\ EmittedNothing
           /\ uuidCount = pre.uuidCount
           /\ previousDiff = recorded.last
           /\ sentDiff = pre.sentDiff
           /\ patchAppliedThisTurn = pre.patchAppliedThisTurn
    /\ lastOp # "flush" => EmittedNothing
    /\ (lastOp = "flush" /\ ~EmittedNothing) => EmittedOnePair(recorded.last)

\* With the emission disabled, B was recorded over A, after an A that an
\* earlier flush() could have sent.
C21_Witness ==
    /\ lastOp = "processDiff"
    /\ disableCodexDiffs
    /\ pre.previousDiff = "A"
    /\ previousDiff = "B"
    /\ recorded.last = "B"

\* C22: sentDiff is null or a value that an earlier processDiff call stored
\* as previousDiff, and only flush() changes it.
C22_SentDiffWasRecorded ==
    /\ sentDiff = NULL \/ sentDiff \in recorded.all
    /\ lastOp # "flush" => sentDiff = pre.sentDiff

\* A was recorded and sent, B was recorded after it, and reset() was called:
\* sentDiff is still A.
C22_Witness ==
    /\ lastOp = "reset"
    /\ sentDiff = "A"
    /\ pre.previousDiff = "B"
    /\ recorded.all = {"A", "B"}

\* C23 as stated: after reset(), previousDiff is null, sentDiff is null and
\* patchAppliedThisTurn is false.
C23_AsStated ==
    lastOp = "reset" =>
        /\ previousDiff = NULL
        /\ sentDiff = NULL
        /\ patchAppliedThisTurn = FALSE

\* C23, amended: after reset(), previousDiff is null and patchAppliedThisTurn
\* is false, and sentDiff is what it was before the call.
C23_ResetKeepsSentDiff ==
    lastOp = "reset" =>
        /\ previousDiff = NULL
        /\ patchAppliedThisTurn = FALSE
        /\ sentDiff = pre.sentDiff
        /\ EmittedNothing

\* reset() was called on a processor that had sent A, held B and had a patch
\* marked.
C23_Witness ==
    /\ lastOp = "reset"
    /\ pre.sentDiff = "A"
    /\ pre.previousDiff = "B"
    /\ pre.patchAppliedThisTurn
    /\ sentDiff = "A"

----------------------------------------------------------------------------
(* Observations of the session marker registry *)

\* The marker a write is stated to leave: the written fields, the configured
\* home, and the time of the write for the timestamps it does not supply.
WrittenFields(w) ==
    [happyHomeDir |-> HomeDir,
     createdAt |-> IF Has(w.marker, "createdAt") THEN w.marker.createdAt ELSE w.now,
     updatedAt |-> IF Has(w.marker, "updatedAt") THEN w.marker.updatedAt ELSE w.now]
    @@ w.marker

\* The same after a JSON round trip: a metadata JSON cannot represent is null.
WrittenFieldsAsJson(w) ==
    IF Has(w.marker, "metadata") /\ w.marker.metadata = NaN
    THEN [WrittenFields(w) EXCEPT !.metadata = NULL]
    ELSE WrittenFields(w)

\* The pids whose last write or remove that returned was a write.
WrittenPids == {p \in Pids : lastWrite[p] # <<>>}

ListReturned == lastCall.op = "listSessionMarkers" /\ lastCall.outcome = "returned"

\* The list holds one marker per written pid and no other.
OnePerWrittenPid ==
    /\ Len(lastCall.result) = Cardinality(WrittenPids)
    /\ {lastCall.result[i].pid : i \in 1..Len(lastCall.result)} = WrittenPids

\* C5 as stated: after writes and removes, the list holds exactly one marker
\* per pid last written, equal to the fields of that write with the configured
\* home and defaulted timestamps.
C5_AsStated ==
    ListReturned =>
        /\ OnePerWrittenPid
        /\ \A i \in 1..Len(lastCall.result) :
              lastCall.result[i] = WrittenFields(lastWrite[lastCall.result[i].pid][1])

\* C5, amended: the same, each marker being equal to the written fields as
\* they come back from JSON: a metadata value JSON cannot represent (NaN) is
\* returned as null.
C5_ListReturnsLatestWrites ==
    ListReturned =>
        /\ OnePerWrittenPid
        /\ \A i \in 1..Len(lastCall.result) :
              lastCall.result[i] =
                  WrittenFieldsAsJson(lastWrite[lastCall.result[i].pid][1])

\* Both pids were written and the list returned both markers: one written as
\* {pid, happySessionId, flavor, metadata} after a remove of an earlier
\* marker of its pid, its timestamps defaulted to the time of the write; the
\* other written with a createdAt of its own.
C5_Witness ==
    /\ ListReturned
    /\ Len(lastCall.result) = 2
    /\ \E i \in 1..2 :
          LET m == lastCall.result[i]
              w == lastWrite[m.pid][1]
          IN /\ Has(m, "flavor")
             /\ ~Has(w.marker, "createdAt")
             /\ m.createdAt = w.now
             /\ w.now > 1
             /\ m.happyHomeDir = HomeDir
             /\ lastCall.before.dir[TmpPath(MarkerPath(m.pid))] = 0
    /\ \E i \in 1..2 : lastCall.result[i].createdAt = 7

\* C10: removeSessionMarker(pid) never raises, leaves no marker file of pid,
\* changes nothing when there was none (so a second call changes nothing), and
\* leaves every other name and its content as they were.
C10_RemoveIsIdempotent ==
    lastCall.op = "removeSessionMarker" =>
        /\ lastCall.outcome = "returned"
        /\ fs.dir[MarkerPath(lastCall.pid)] = 0
        /\ UnlinkThrows(lastCall.before, MarkerPath(lastCall.pid)) =>
               fs = lastCall.before
        /\ \A n \in AllNames \ {MarkerPath(lastCall.pid)} :
              /\ (fs.dir[n] = 0) <=> (lastCall.before.dir[n] = 0)
              /\ fs.dir[n] # 0 =>
                    fs.inodes[fs.dir[n]] =
                        lastCall.before.inodes[lastCall.before.dir[n]]

\* A remove of a pid that had no marker file, the other pid having one.
C10_Witness ==
    /\ lastCall.op = "removeSessionMarker"
    /\ lastCall.before.exists
    /\ lastCall.before.dir[MarkerPath(lastCall.pid)] = 0
    /\ \E p \in Pids \ {lastCall.pid} : fs.dir[MarkerPath(p)] # 0

\* A required field of the marker is missing or malformed: no positive pid, no
\* happySessionId, or a supplied timestamp that is not positive.
MalformedMarker(marker) ==
    \/ ~Has(marker, "pid")
    \/ marker.pid <= 0
    \/ ~Has(marker, "happySessionId")
    \/ Has(marker, "createdAt") /\ marker.createdAt <= 0
    \/ Has(marker, "updatedAt") /\ marker.updatedAt <= 0

\* C11: writeSessionMarker of a marker with a missing or malformed required
\* field raises the validation error, and no name of the directory and no
\* content of a file, marker or temporary, is other than before the call; the
\* file of every pid written earlier still lists as the marker of that write.
C11_InvalidWriteTouchesNoFile ==
    (lastCall.op = "writeSessionMarker" /\ MalformedMarker(lastCall.arg[1])) =>
        /\ lastCall.outcome = "raised ZodError"
        /\ fs.dir = lastCall.before.dir
        /\ fs.inodes = lastCall.before.inodes
        /\ \A p \in WrittenPids :
              ListEntry(fs, MarkerPath(p)) =
                  <<WrittenFieldsAsJson(lastWrite[p][1])>>

\* A write with pid 0 was refused in a directory that held the markers of both
\* pids, and one with a missing happySessionId would be refused as well.
C11_Witness ==
    /\ lastCall.op = "writeSessionMarker"
    /\ lastCall.pid = 0
    /\ lastCall.outcome = "raised ZodError"
    /\ WrittenPids = Pids
    /\ \A p \in Pids : Readable(fs, MarkerPath(p))

----------------------------------------------------------------------------
(* Observations of the persisted sessions *)

\* A value as it comes back from JSON: one JSON cannot represent is null.
AsJson(v) == IF v = NaN THEN NULL ELSE v

\* The last call read a session whose file holds what the last
\* writePersistedHappySession of its id wrote.
ReadOfWritten ==
    /\ lastSessionCall.op = "readPersistedHappySession"
    /\ lastSessionCall.sessionId \in SessionIds
    /\ lastPersist[lastSessionCall.sessionId] # <<>>

\* C12: after writes of one session id a read returns a record with that id,
\* createdAt and updatedAt both the time of the latest write, and every other
\* field that of the latest write alone (as it comes back from JSON): it has a
\* vendorResume exactly when the latest write supplied one.
C12_WriteReplacesRecord ==
    ReadOfWritten =>
        /\ Len(lastSessionCall.result) = 1
        /\ LET r == lastSessionCall.result[1]
               w == lastPersist[lastSessionCall.sessionId][1]
           IN /\ r.sessionId = lastSessionCall.sessionId
              /\ r.createdAt = w.now
              /\ r.updatedAt = w.now
              /\ r.createdAt = r.updatedAt
              /\ r.flavor = w.extra.flavor
              /\ Has(r, "vendorResume") <=>
                     (Has(w.extra, "vendorResume") /\ w.extra.vendorResume # NULL)
              /\ Has(r, "vendorResume") => r.vendorResume = w.extra.vendorResume
              /\ r.metadata = AsJson(w.session.metadata)
              /\ r.metadataVersion = w.session.metadataVersion
              /\ r.agentState = IF Has(w.session, "agentState")
                                THEN AsJson(w.session.agentState) ELSE NULL
              /\ r.agentStateVersion = w.session.agentStateVersion
              /\ r.encryptionVariant = w.session.encryptionVariant
              /\ r.encryptionKeyBase64 \in {"TWFu", "/w==", "TWE="}
              /\ Len(r.encryptionKeyBase64) =
                     4 * ((Len(w.session.encryptionKey) + 2) \div 3)

\* A read returned the record of a write without vendorResume made at time 2
\* over a record with a vendorResume created at time 1.
C12_Witness ==
    /\ ReadOfWritten
    /\ LET r == lastSessionCall.result[1]
           w == lastPersist[lastSessionCall.sessionId][1]
       IN /\ w.over
          /\ w.now = 2
          /\ r.createdAt = 2
          /\ ~Has(r, "vendorResume")

\* C13: readPersistedHappySession returns, never raises and leaves the store
\* as it was; it returns null when there is no file, when the file cannot be
\* read, is not JSON or is rejected by the schema, and the record otherwise.
C13_ReadNeverThrows ==
    lastSessionCall.op = "readPersistedHappySession" =>
        /\ lastSessionCall.outcome = "returned"
        /\ ~lastSessionCall.storeChanged
        /\ lastSessionCall.found \in {"absent", "directory", "cut off", "rejected"}
               => lastSessionCall.result = <<>>
        /\ lastSessionCall.found = "written"
               => /\ Len(lastSessionCall.result) = 1
                  /\ lastSessionCall.result[1].sessionId =
                         lastSessionCall.sessionId

\* Reads have returned null for a file that is a directory while the file of
\* s1 held cut-off JSON and that of s2 a written record.
C13_Witness ==
    /\ lastSessionCall.op = "readPersistedHappySession"
    /\ lastSessionCall.found = "directory"
    /\ lastSessionCall.result = <<>>
    /\ origin["s1"] = "cut off"
    /\ origin["s2"] = "written"

----------------------------------------------------------------------------
(* Observations of the choice of the transcript file *)

\* The choice has been made for a string that is not the path of a file.
ChoseByString ==
    /\ resumePc # "called"
    /\ request.resume[1] = "string"
    /\ ~StatIsFile(codexFiles, request.resume[2])

\* The transcript files of the root: the files under it named *.jsonl.
Transcripts ==
    {codexFiles[i].file : i \in
        {j \in 1..Len(codexFiles) :
            /\ codexFiles[j].kind = "file"
            /\ StartsWith(codexFiles[j].file, CodexRoot \o "/")
            /\ EndsWith(codexFiles[j].file, ".jsonl")}}

NotFoundRaised ==
    /\ resumePc = "raised"
    /\ chosen[1] = Raised("Could not find Codex resume transcript")
    /\ result = <<>>

\* C14 as stated: for a string that is not the path of an existing file, the
\* file chosen is a transcript whose name ends with -<string>.jsonl, and when
\* no transcript has such a name the not-found error is raised to the caller.
C14_AsStated ==
    ChoseByString =>
        LET suffix == "-" \o request.resume[2] \o ".jsonl"
            named == {f \in Transcripts : EndsWith(Basename(f), suffix)}
        IN IF named = {} THEN NotFoundRaised
           ELSE /\ resumePc = "chosen"
                /\ chosen[1].outcome = "returned"
                /\ chosen[1].value \in named

\* C14, amended: for a non-empty string that is not the path of an existing
\* file, the file chosen is a transcript whose path ends with -<string>.jsonl
\* (its name, when the string holds no separator), never another, and when no
\* transcript has such a path the not-found error is raised to the caller and
\* no result is returned; the empty string is no request, and the result is
\* all-null.
C14_ResumeByIdPicksSuffix ==
    ChoseByString =>
        LET suffix == "-" \o request.resume[2] \o ".jsonl"
            pathed == {f \in Transcripts : EndsWith(f, suffix)}
        IN IF request.resume[2] = ""
           THEN resumePc = "returned" /\ result = <<AllNull>>
           ELSE IF pathed = {} THEN NotFoundRaised
           ELSE /\ resumePc = "chosen"
                /\ chosen[1].outcome = "returned"
                /\ chosen[1].value \in pathed
                /\ result = <<>>

\* With a-111.jsonl and b-222.jsonl in the root, the id 222 chose b-222.jsonl.
C14_Witness ==
    /\ codexFiles = <<FileA, FileB, FileOut>>
    /\ request.resume = ResumeString("222")
    /\ resumePc = "chosen"
    /\ chosen[1].value = CodexRoot \o "/b-222.jsonl"

\* The choice has been made for a bare resume request.
ChoseMostRecent ==
    /\ resumePc # "called"
    /\ request.resume = ResumeMostRecent

MtimeOf(f) ==
    codexFiles[CHOOSE i \in 1..Len(codexFiles) : codexFiles[i].file = f].mtimeMs

\* C15: for a bare resume request off a terminal the file chosen is a
\* transcript no other transcript is newer than, whatever line is waiting on
\* the input; with no transcript at all the result is all-null and nothing is
\* raised.
C15_NonInteractivePicksNewest ==
    (ChoseMostRecent /\ ~request.hasTTY) =>
        IF Transcripts = {}
        THEN /\ resumePc = "returned"
             /\ chosen[1].outcome = "returned"
             /\ result = <<AllNull>>
        ELSE /\ resumePc = "chosen"
             /\ chosen[1].outcome = "returned"
             /\ chosen[1].value \in Transcripts
             /\ \A f \in Transcripts : MtimeOf(f) <= MtimeOf(chosen[1].value)

\* Off a terminal, a-111.jsonl was chosen among three transcripts of which it
\* is the newest and not the first of the scan, a newer file that is no
\* transcript lying beside them.
C15_Witness ==
    /\ ChoseMostRecent
    /\ ~request.hasTTY
    /\ codexFiles = <<FileB, FileA, FileTxt, DirD, FileC, FileOut>>
    /\ chosen[1].value = FileA.file

\* The line is a numeral: digits alone, after an optional plus sign.
Numeral(a) ==
    LET digits == IF StartsWith(a, "+") THEN SubSeq(a, 2, Len(a)) ELSE a
    IN /\ Len(digits) > 0
       /\ \A i \in 1..Len(digits) : IsDigit(CharAt(digits, i))

NumeralValue(a) ==
    DigitsValue(IF StartsWith(a, "+") THEN SubSeq(a, 2, Len(a)) ELSE a, 0)

\* C16 as stated: at the prompt, a number n from 1 to the number of
\* transcripts shown (at most 20) chooses the n-th most recent; an empty line
\* gives the all-null result; every other line raises the invalid-selection
\* error to the caller and chooses no transcript.
C16_AsStated ==
    (ChoseMostRecent /\ request.hasTTY /\ Transcripts # {}) =>
        LET answer == Trim(request.answer)
            recent == listCodexTranscriptFiles(codexFiles)
            shown == IF Len(recent) < 20 THEN Len(recent) ELSE 20
        IN IF answer = ""
           THEN resumePc = "returned" /\ result = <<AllNull>>
           ELSE IF Numeral(answer) /\ NumeralValue(answer) \in 1..shown
           THEN /\ resumePc = "chosen"
                /\ chosen[1] = Returned(recent[NumeralValue(answer)].file)
           ELSE /\ resumePc = "raised"
                /\ chosen[1] = Raised("Invalid selection")
                /\ result = <<>>

----------------------------------------------------------------------------
(* Observations of resumeCodex *)

\* resumeCodex has returned, and it had spawned codex.
ReturnedAfterSpawn == resumePc = "returned" /\ child # <<>>

\* No line codex printed is the event of an agent message.
NoMatchingEvent ==
    \A i \in 1..Len(child[1].printed) :
        AgentMessageText(Trim(child[1].printed[i])) = <<>>

\* The error stream, read to its end, reports that the session is not found.
SessionNotFound ==
    /\ child[1].closed
    /\ \E i \in 1..Len(stderr) : StartsWith(SubSeq(stderr, i, Len(stderr)),
                                             "Session not found")

\* C17, as stated: when codex reports on its error stream that the session is
\* not found, or prints no event of an agent message, or could not be spawned,
\* the exec summary is null and the result still names the transcript and holds
\* the context built from it. The claim is read in the way most favourable to
\* it: the transcript still reads when the contexts are built.
C17_AsStated ==
    (/\ ReturnedAfterSpawn
     /\ transcript.readable
     /\ child[1].fails \/ SessionNotFound \/ (child[1].closed /\ NoMatchingEvent))
    => /\ result[1].resumeExecSummary = NULL
       /\ result[1].resumeTranscriptFile # NULL
       /\ result[1].resumeContext # NULL

\* resumeCodex has chosen a transcript file.
FileChosen ==
    chosen # <<>> /\ chosen[1].outcome = "returned" /\ ~Falsy(chosen[1].value)

\* C18: without a resume request the result is all-null at once; once a file
\* is chosen nothing is raised to the caller, and a transcript that does not
\* read when the contexts are built makes the whole result all-null; every
\* result is all-null or has its file and both contexts, the exec summary
\* alone being free to be null.
C18_AllOrNothing ==
    /\ (request.resume = Undefined /\ resumePc # "called")
       => resumePc = "returned" /\ result = <<AllNull>> /\ child = <<>>
    /\ FileChosen => resumePc # "raised"
    /\ (FileChosen /\ resumePc = "returned" /\ ~transcript.readable)
       => result = <<AllNull>>
    /\ resumePc = "returned"
       => /\ Len(result) = 1
          /\ \/ result[1] = AllNull
             \/ /\ result[1].resumeTranscriptFile # NULL
                /\ result[1].resumeContext # NULL
                /\ result[1].resumeContextForUi # NULL

\* A transcript removed while codex ran: the summary was there, and the
\* result is all-null.
C18_Witness ==
    /\ FileChosen
    /\ resumePc = "returned"
    /\ child # <<>>
    /\ summary # <<>> /\ summary[1].value # NULL
    /\ ~transcript.readable
    /\ result = <<AllNull>>

\* The text of the last event of an agent message among the lines codex
\* printed.
LastPrintedText ==
    LET printed == child[1].printed
        matching == {i \in 1..Len(printed) :
                        AgentMessageText(Trim(printed[i])) # <<>>}
    IN AgentMessageText(Trim(printed[CHOOSE i \in matching :
                                        \A j \in matching : j <= i]))[1]

\* The promise was settled by 'close' of a subprocess that printed the event
\* of an agent message.
ClosedWithEvent ==
    /\ child # <<>>
    /\ summary # <<>> /\ summary[1].by = "close"
    /\ ~NoMatchingEvent

\* C19, as stated: the exec summary is the text of the last line of the output
\* that is an item.completed event of an agent_message, whatever the lines
\* before it are. The claim is read in the way most favourable to it: the text
\* is compared without the white space around it, and a blank text is no
\* summary.
C19_AsStated ==
    ClosedWithEvent
    => summary[1].value = IF Trim(LastPrintedText) = "" THEN NULL
                          ELSE Trim(LastPrintedText)

\* C20, as stated: no two adjacent messages of the list parsed from a
\* transcript have the same role and the same text, messages longer than the
\* cap included.
C20_AsStated ==
    \A i \in 1..(Len(messages) - 1) :
        ~(/\ messages[i].role = messages[i + 1].role
          /\ messages[i].text = messages[i + 1].text)

\* The subprocess has delivered 'close' or 'error'.
ChildEnded == child # <<>> /\ (child[1].closed \/ child[1].error)

\* C24: the exec summary has no timeout.  Once codex is spawned, resumeCodex
\* stays at its await for as long as the subprocess has delivered neither
\* 'close' nor 'error'; the promise is settled once, an event after the first
\* leaving it as it is; and once 'close' or 'error' is delivered resumeCodex
\* returns a result.
C24_ReturnsIffChildEnds ==
    /\ []((child # <<>> /\ ~ChildEnded) => resumePc = "awaiting" /\ result = <<>>)
    /\ [][summary # <<>> => summary' = summary]_vars
    /\ [](ChildEnded => summary # <<>>)
    /\ ChildEnded ~> (resumePc = "returned" /\ result # <<>>)

\* codex could not be started: 'error' settled the promise, 'close' came
\* after it and changed nothing, and resumeCodex has returned.
C24_Witness ==
    /\ ReturnedAfterSpawn
    /\ child[1].error
    /\ child[1].closed
    /\ summary = <<[value |-> NULL, by |-> "error"]>>
    /\ result # <<>>

----------------------------------------------------------------------------
(* Observations of the concurrent tasks *)

\* The markers of the configured home that the tasks and other programs write.
KnownHomeMarkers ==
    {MarkerSchemaData(MarkerCandidate(m, 1)) : m \in TaskMarkerInputs}
        \cup {StaleHomeMarker}

\* The complete documents written to the marker file of pid 1.
WrittenTexts ==
    {JsonStringify(m) : m \in KnownHomeMarkers \ {StaleHomeMarker}}

\* C6 as stated: whatever writers and readers of one path do, a read of the
\* path finds no file or the complete document of some write.
C6_AsStated ==
    reads # <<>> => reads[1] = NoFile \/ reads[1] \in WrittenTexts

WriteInProgress ==
    \E t \in Tasks : tasks[t].pc \in {"parse", "write", "rename"}

\* C7 as stated: concurrent writes of one marker file all return without
\* error, and when they have ended the file holds the complete value of the
\* write whose rename came last.
C7_AsStated ==
    /\ \A t \in Tasks :
          tasks[t].op = "writeSessionMarker" =>
              tasks[t].outcome \in {"none", "returned"}
    /\ (~WriteInProgress /\ renamed[MarkerPath(1)] # <<>>) =>
           Observed(fs, MarkerPath(1)) = renamed[MarkerPath(1)][1]

ListDone(t) == tasks[t].op = "listSessionMarkers" /\ tasks[t].pc = "done"

Listed(t) == {tasks[t].markers[i] : i \in 1..Len(tasks[t].markers)}

\* name has held the document of marker since before the readdir of task t.
HeldThroughout(t, name, marker) ==
    /\ name \notin tasks[t].touched
    /\ IsMarkerName(name)
    /\ Readable(fs, name)
    /\ ReadFile(fs, name) = JsonStringify(marker)

\* C8: a list never holds a marker of another home, also when a valid marker
\* file of another home was in the directory all along; the markers of the
\* configured home that were there all along are returned.
C8_ListKeepsToHome ==
    \A t \in Tasks :
        ListDone(t) =>
            /\ \A m \in Listed(t) : m.happyHomeDir = HomeDir
            /\ OtherHomeMarker \notin Listed(t)
            /\ (\E n \in AllNames : HeldThroughout(t, n, OtherHomeMarker)) =>
                   \A n \in AllNames, m \in KnownHomeMarkers :
                       HeldThroughout(t, n, m) => m \in Listed(t)

\* A list ended over a directory that held a valid marker of another home and
\* a marker of the configured home: only the latter was returned.
C8_Witness ==
    \E t \in Tasks :
        /\ ListDone(t)
        /\ \E n \in tasks[t].snapshot : HeldThroughout(t, n, OtherHomeMarker)
        /\ \E m \in KnownHomeMarkers : tasks[t].markers = <<m>>

\* C9: a list returns whatever its entries are: an entry that cannot be read,
\* is not JSON, fails the schema or is gone by the time it is read is left
\* out, and every marker of the configured home that was there all along is
\* returned, once.
C9_ListSkipsBadEntries ==
    \A t \in Tasks :
        ListDone(t) =>
            /\ tasks[t].outcome = "returned"
            /\ \A m \in Listed(t) : MarkerSchemaOk(m)
            /\ \A n \in tasks[t].vanished : n \in tasks[t].snapshot
            /\ \A n \in AllNames, m \in KnownHomeMarkers :
                  HeldThroughout(t, n, m) =>
                      Len(SelectSeq(tasks[t].markers, LAMBDA x : x = m)) = 1

\* A list ended after one of the entries it had enumerated was removed before
\* it was read, and it returned the marker of the other entry.
C9_Witness ==
    \E t \in Tasks :
        /\ ListDone(t)
        /\ tasks[t].outcome = "returned"
        /\ MarkerPath(1) \in tasks[t].vanished
        /\ tasks[t].markers = <<StaleHomeMarker>>

====
